---- MODULE Spec2Model ----
(***************************************************************************)
(* Talisik short URL service: the Short Link Engine (URLShortener) over    *)
(* its two storage backends (MemoryStorage, XataStorage).                  *)
(*                                                                         *)
(* Conventions                                                             *)
(*   - Python's Optional[T] is a sequence of length 0 or 1: None is <<>>,  *)
(*     a value x is <<x>>.  A string is a sequence of characters, so the   *)
(*     empty string is <<>> as well: both are falsy in Python.             *)
(*   - Time is an integer number of milliseconds.                          *)
(*   - A ShortURL object lives in a heap (objs) under an identity; the     *)
(*     backend holds the identities it stores (stored).  MemoryStorage     *)
(*     hands out references to the heap object, XataStorage hands out      *)
(*     copies of a row.                                                    *)
(***************************************************************************)
EXTENDS Integers, Sequences, FiniteSets, TLC

VARIABLES
    backend,    \* config.storage_backend: "memory" or "xata"
    faulty,     \* whether calls to the remote backend may fail
    now,        \* the wall clock, in milliseconds
    objs,       \* heap: identity -> ShortURL object / table row
    stored,     \* identities held by the backend (_urls values / table rows)
    pc,         \* per caller: where it is inside an engine call
    local       \* per caller: the locals of the engine call in progress, then its result

vars == <<backend, faulty, now, objs, stored, pc, local>>

-----------------------------------------------------------------------------
(* Bounds of the model *)

\* config.default_code_length (1..50 by TalisikConfig.validate; default 7)
DefaultCodeLength == 1
\* number of ShortURL objects alive at once
MaxEntries == 2
\* the clock stops advancing here
MaxTime == 2
\* expand is not called on an entry whose click_count reached this
MaxClicks == 2

\* the longest code asked of the generator
MaxCodeLength == 3
\* string.ascii_letters + string.digits
Alphanumeric ==
    {"a", "b", "c", "d", "e", "f", "g", "h", "i", "j", "k", "l", "m",
     "n", "o", "p", "q", "r", "s", "t", "u", "v", "w", "x", "y", "z",
     "A", "B", "C", "D", "E", "F", "G", "H", "I", "J", "K", "L", "M",
     "N", "O", "P", "Q", "R", "S", "T", "U", "V", "W", "X", "Y", "Z",
     "0", "1", "2", "3", "4", "5", "6", "7", "8", "9"}
\* string.ascii_letters + string.digits, cut down to two characters
Alphabet == {"a", "b"}
Backends == {"memory", "xata"}
Procs == {"p1", "p2"}
Ids == 1 .. MaxEntries

None == <<>>
Some(x) == <<x>>
IsNone(o) == Len(o) = 0
Val(o) == o[1]

\* 60 * 60 * 1000 milliseconds
MsPerHour == 60 * 60 * 1000

-----------------------------------------------------------------------------
(* URLs.  A URL is what urlparse and the marker test see of it: its scheme, *)
(* its authority, and the text after "downlodr.com/share-video/?shareId="   *)
(* when the URL contains that marker (share = <<token>>), else share = <<>>.*)

\* JSON payloads a shareId may carry
PayloadFull == [url |-> "https://v.example/clip", createdAt |-> "2024-01-01"]
PayloadNoUrl == [createdAt |-> "2024-01-01"]

\* shareId tokens: [b64 |-> is it valid base64, json |-> <<value>> or <<>>]
\* json = <<>> : the decoded bytes are not JSON
TokenGood == [b64 |-> TRUE, json |-> Some([kind |-> "object", value |-> PayloadFull])]
TokenNoUrl == [b64 |-> TRUE, json |-> Some([kind |-> "object", value |-> PayloadNoUrl])]
TokenList == [b64 |-> TRUE, json |-> Some([kind |-> "array", value |-> <<1>>])]
TokenBadJson == [b64 |-> TRUE, json |-> None]
TokenBadB64 == [b64 |-> FALSE, json |-> None]

MkUrl(scheme, netloc, share) == [scheme |-> scheme, netloc |-> netloc, share |-> share]

UrlPlain == MkUrl("https", "example.com", None)
UrlNoScheme == MkUrl("", "", None)
UrlNoNetloc == MkUrl("mailto", "", None)
UrlShareGood == MkUrl("https", "downlodr.com", Some(TokenGood))
UrlShareBadB64 == MkUrl("https", "downlodr.com", Some(TokenBadB64))

\* a validation that looks at the scheme only
IsValidUrlSchemeOnly(url) == url.scheme # ""

\* URLShortener._is_valid_url: all([result.scheme, result.netloc])
IsValidUrl(url) == url.scheme # "" /\ url.netloc # ""

\* datetime.isoformat / datetime.fromisoformat
IsoFormat(t) == <<"iso", t>>
FromIsoFormat(s) == s[2]

\* a rewriter that re-encodes a decodable token also when there is no expiry
ModifyDownlodrUrlWithoutExpiry(url, expires_at) ==
    IF IsNone(url.share) THEN url
    ELSE LET token == Val(url.share) IN
         IF ~token.b64 THEN url
         ELSE IF IsNone(token.json) THEN url
         ELSE LET payload == Val(token.json) IN
              IF payload.kind # "object" THEN url
              ELSE IF "url" \notin DOMAIN payload.value THEN url
              ELSE MkUrl("https", "downlodr.com",
                         Some([b64 |-> TRUE,
                               json |-> Some([kind |-> "object",
                                              value |-> [url |-> payload.value.url,
                                                         expiresAt |-> IsoFormat(IF IsNone(expires_at) THEN 0 ELSE Val(expires_at))]])]))

\* a rewriter that re-encodes an object without a url field with the expiry alone
ModifyDownlodrUrlMissingUrl(url, expires_at) ==
    IF IsNone(url.share) THEN url
    ELSE IF IsNone(expires_at) THEN url
    ELSE LET token == Val(url.share) IN
         IF ~token.b64 THEN url
         ELSE IF IsNone(token.json) THEN url
         ELSE LET payload == Val(token.json) IN
              IF payload.kind # "object" THEN url
              ELSE MkUrl("https", "downlodr.com",
                         Some([b64 |-> TRUE,
                               json |-> Some([kind |-> "object",
                                              value |-> [expiresAt |-> IsoFormat(Val(expires_at))]])]))

\* a rewriter that sets the expiry in the decoded object and re-encodes all of it
ModifyDownlodrUrlKeepFields(url, expires_at) ==
    IF IsNone(url.share) THEN url
    ELSE IF IsNone(expires_at) THEN url
    ELSE LET token == Val(url.share) IN
         IF ~token.b64 THEN url
         ELSE IF IsNone(token.json) THEN url
         ELSE LET payload == Val(token.json) IN
              IF payload.kind # "object" THEN url
              ELSE IF "url" \notin DOMAIN payload.value THEN url
              ELSE MkUrl("https", "downlodr.com",
                         Some([b64 |-> TRUE,
                               json |-> Some([kind |-> "object",
                                              value |-> ("expiresAt" :> IsoFormat(Val(expires_at)))
                                                          @@ payload.value])]))

\* URLShortener._modify_downlodr_url
ModifyDownlodrUrl(url, expires_at) ==
    IF IsNone(url.share) THEN url
    ELSE IF IsNone(expires_at) THEN url
    ELSE LET token == Val(url.share) IN
         IF ~token.b64 THEN url                        \* binascii.Error
         ELSE IF IsNone(token.json) THEN url           \* JSONDecodeError
         ELSE LET payload == Val(token.json) IN
              IF payload.kind # "object" THEN url      \* TypeError, outer except
              ELSE IF "url" \notin DOMAIN payload.value THEN url   \* KeyError
              ELSE MkUrl("https", "downlodr.com",
                         Some([b64 |-> TRUE,
                               json |-> Some([kind |-> "object",
                                              value |-> [url |-> payload.value.url,
                                                         expiresAt |-> IsoFormat(Val(expires_at))]])]))

-----------------------------------------------------------------------------
(* Storage backends.  w is the backend's world [objs, stored]; fault says   *)
(* that the remote call raised (unreachable backend, malformed data).       *)

World == [objs |-> objs, stored |-> stored]

IdsWithCode(w, code) == {i \in w.stored : w.objs[i].short_code = code}
FirstId(S) == CHOOSE i \in S : \A j \in S : i <= j

\* models.ShortURL
ShortURL(original_url, short_code, created_at, expires_at, click_count, is_active) ==
    [original_url |-> original_url, short_code |-> short_code,
     created_at |-> created_at, expires_at |-> expires_at,
     click_count |-> click_count, is_active |-> is_active]

\* MemoryStorage.get: a reference to the stored object, or None
MemoryGet(w, code) ==
    IF IdsWithCode(w, code) = {} THEN None
    ELSE Some(FirstId(IdsWithCode(w, code)))

\* XataStorage._record_to_short_url
RecordToShortUrl(record) ==
    ShortURL(record.original_url, record.short_code, record.created_at,
             IF IsNone(record.expires_at) THEN None
             ELSE Some(FromIsoFormat(IsoFormat(Val(record.expires_at)))),
             record.click_count, record.is_active)

\* XataStorage.get: a copy of records[0], or None (also when the query raised)
XataGet(w, code, fault) ==
    IF fault THEN None
    ELSE IF IdsWithCode(w, code) = {} THEN None
    ELSE Some(RecordToShortUrl(w.objs[FirstId(IdsWithCode(w, code))]))

\* a set that keeps the object already held under the code (dict.setdefault)
MemorySetKeepFirst(w, id) ==
    IF IdsWithCode(w, w.objs[id].short_code) # {} THEN w
    ELSE [w EXCEPT !.stored = @ \cup {id}]

\* a set that appends the object instead of replacing the one under its code
MemorySetAppend(w, id) == [w EXCEPT !.stored = @ \cup {id}]

\* MemoryStorage.set: _urls[short_code] = the object with identity id
MemorySet(w, id) ==
    [w EXCEPT !.stored = (@ \ IdsWithCode(w, w.objs[id].short_code)) \cup {id}]

\* a set whose failed call has inserted the row all the same
XataSetRaiseAfterInsert(w, obj, fault, xata_id, t) ==
    IF IdsWithCode(w, obj.short_code) # {}
    THEN [raised |-> TRUE, w |-> w]
    ELSE [raised |-> fault,
          w |-> [objs |-> (xata_id :> [obj EXCEPT !.created_at = t]) @@ w.objs,
                 stored |-> w.stored \cup {xata_id}]]

\* XataStorage.set: INSERT of a new row under a fresh xata_id; created_at is
\* not among the inserted columns and takes the table's default, the time of
\* the insert.  short_code is unique in the table.
XataSet(w, obj, fault, xata_id, t) ==
    IF fault \/ IdsWithCode(w, obj.short_code) # {}
    THEN [raised |-> TRUE, w |-> w]
    ELSE [raised |-> FALSE,
          w |-> [objs |-> (xata_id :> [obj EXCEPT !.created_at = t]) @@ w.objs,
                 stored |-> w.stored \cup {xata_id}]]

\* a delete that answers True for a stored code and leaves it in place
MemoryDeleteKeep(w, code) == [ret |-> IdsWithCode(w, code) # {}, w |-> w]

\* MemoryStorage.delete
MemoryDelete(w, code) ==
    IF IdsWithCode(w, code) # {}
    THEN [ret |-> TRUE, w |-> [w EXCEPT !.stored = @ \ IdsWithCode(w, code)]]
    ELSE [ret |-> FALSE, w |-> w]

\* XataStorage.delete: DELETE ... RETURNING xata_id; False when the query raised
XataDelete(w, code, fault) ==
    IF fault THEN [ret |-> FALSE, w |-> w]
    ELSE IF IdsWithCode(w, code) # {}
    THEN [ret |-> TRUE, w |-> [w EXCEPT !.stored = @ \ IdsWithCode(w, code)]]
    ELSE [ret |-> FALSE, w |-> w]

\* an existence check that never finds the code
MemoryExistsNever(w, code) == FALSE

\* MemoryStorage.exists
MemoryExists(w, code) == IdsWithCode(w, code) # {}

\* XataStorage.exists
XataExists(w, code, fault) == ~IsNone(XataGet(w, code, fault))

\* an increment that counts a click twice
IncrementRowsTwice(w, S) ==
    [w EXCEPT !.objs = [i \in DOMAIN w.objs |->
        IF i \in S THEN [w.objs[i] EXCEPT !.click_count = @ + 2] ELSE w.objs[i]]]

\* click_count += 1 / SET click_count = click_count + 1 on the rows in S
IncrementRows(w, S) ==
    [w EXCEPT !.objs = [i \in DOMAIN w.objs |->
        IF i \in S THEN [w.objs[i] EXCEPT !.click_count = @ + 1] ELSE w.objs[i]]]

\* MemoryStorage.update_click_count
MemoryUpdateClickCount(w, code) ==
    IF IdsWithCode(w, code) # {}
    THEN LET w2 == IncrementRows(w, IdsWithCode(w, code)) IN
         [ret |-> Some(w2.objs[FirstId(IdsWithCode(w, code))].click_count), w |-> w2]
    ELSE [ret |-> None, w |-> w]

\* an update that returns the count it read before incrementing
XataUpdateClickCountStale(w, code, fault) ==
    IF fault THEN [ret |-> None, w |-> w]
    ELSE IF IdsWithCode(w, code) # {}
    THEN [ret |-> Some(w.objs[FirstId(IdsWithCode(w, code))].click_count),
          w |-> IncrementRows(w, IdsWithCode(w, code))]
    ELSE [ret |-> None, w |-> w]

\* XataStorage.update_click_count: UPDATE ... RETURNING click_count
XataUpdateClickCount(w, code, fault) ==
    IF fault THEN [ret |-> None, w |-> w]
    ELSE IF IdsWithCode(w, code) # {}
    THEN LET w2 == IncrementRows(w, IdsWithCode(w, code)) IN
         [ret |-> Some(w2.objs[FirstId(IdsWithCode(w, code))].click_count), w |-> w2]
    ELSE [ret |-> None, w |-> w]

\* sum(url.click_count for ...) / SUM(click_count) over the rows in S
RECURSIVE SumClicks(_, _)
SumClicks(w, S) ==
    IF S = {} THEN 0
    ELSE LET i == CHOOSE j \in S : TRUE IN w.objs[i].click_count + SumClicks(w, S \ {i})

ZeroStats == [total_urls |-> 0, active_urls |-> 0, total_clicks |-> 0]

\* statistics that count every entry as active
MemoryGetStatsAllActive(w) ==
    [raised |-> FALSE,
     ret |-> [total_urls |-> Cardinality(w.stored),
              active_urls |-> Cardinality(w.stored),
              total_clicks |-> SumClicks(w, w.stored)]]

\* MemoryStorage.get_stats
MemoryGetStats(w) ==
    [raised |-> FALSE,
     ret |-> [total_urls |-> Cardinality(w.stored),
              active_urls |-> Cardinality({i \in w.stored : w.objs[i].is_active}),
              total_clicks |-> SumClicks(w, w.stored)]]

\* the one record of SELECT COUNT(*), SUM(CASE ...), SUM(click_count): the
\* sums of an empty table are NULL
SqlStatsRecord(w) ==
    [total_urls |-> Some(Cardinality(w.stored)),
     active_urls |-> IF w.stored = {} THEN None
                     ELSE Some(Cardinality({i \in w.stored : w.objs[i].is_active})),
     total_clicks |-> IF w.stored = {} THEN None ELSE Some(SumClicks(w, w.stored))]

\* a get_stats that lets the failure of its query leave the call
XataGetStatsRaise(w, fault) ==
    IF fault THEN [raised |-> TRUE, ret |-> ZeroStats]
    ELSE LET stats == SqlStatsRecord(w) IN
         IF IsNone(stats.active_urls) \/ IsNone(stats.total_clicks)
         THEN [raised |-> FALSE, ret |-> ZeroStats]
         ELSE [raised |-> FALSE,
               ret |-> [total_urls |-> Val(stats.total_urls),
                        active_urls |-> Val(stats.active_urls),
                        total_clicks |-> Val(stats.total_clicks)]]

\* XataStorage.get_stats: int(None) of a NULL sum raises inside the try, and
\* the except clause answers the zeroed statistics, as it does when the query raised
XataGetStats(w, fault) ==
    IF fault THEN [raised |-> FALSE, ret |-> ZeroStats]
    ELSE LET stats == SqlStatsRecord(w) IN
         IF IsNone(stats.active_urls) \/ IsNone(stats.total_clicks)
         THEN [raised |-> FALSE, ret |-> ZeroStats]
         ELSE [raised |-> FALSE,
               ret |-> [total_urls |-> Val(stats.total_urls),
                        active_urls |-> Val(stats.active_urls),
                        total_clicks |-> Val(stats.total_clicks)]]

\* the dictionary get_all_urls builds for one entry
UrlSummary(o) ==
    [original_url |-> o.original_url,
     short_code |-> o.short_code,
     expires_at |-> IF IsNone(o.expires_at) THEN None ELSE Some(IsoFormat(Val(o.expires_at))),
     click_count |-> o.click_count,
     is_active |-> o.is_active,
     created_at |-> IsoFormat(o.created_at)]

\* the orders of the entries in S, each entry once
Orderings(S) ==
    {s \in [1 .. Cardinality(S) -> S] : \A j, k \in 1 .. Cardinality(S) : s[j] = s[k] => j = k}
\* comparison of two isoformat strings of the same shape
IsoLessEq(s1, s2) == FromIsoFormat(s1) <= FromIsoFormat(s2)
\* sorted(..., key=created_at, reverse=True) / ORDER BY created_at DESC; the
\* order among entries of equal created_at is left open
NewestFirst(w, s) ==
    \A k \in 1 .. Len(s) - 1 :
        IsoLessEq(IsoFormat(w.objs[s[k + 1]].created_at), IsoFormat(w.objs[s[k]].created_at))

\* a listing that keeps the order of the identities
ListingsUnsorted(w) ==
    {[k \in 1 .. Len(s) |-> UrlSummary(w.objs[s[k]])] :
        s \in {o \in Orderings(w.stored) : \A k \in 1 .. Len(o) - 1 : o[k] < o[k + 1]}}

\* the lists get_all_urls can return for the stored entries
Listings(w) ==
    {[k \in 1 .. Len(s) |-> UrlSummary(w.objs[s[k]])] :
        s \in {o \in Orderings(w.stored) : NewestFirst(w, o)}}

\* MemoryStorage.get_all_urls
MemoryGetAllUrls(w) == Listings(w)

\* XataStorage.get_all_urls: [] when the query raised
XataGetAllUrls(w, fault) == IF fault THEN {<<>>} ELSE Listings(w)

-----------------------------------------------------------------------------
(* Requests and responses *)

\* str.rstrip('/') on a string given as its pieces
RECURSIVE RStripSlash(_)
RStripSlash(s) ==
    IF Len(s) > 0 /\ s[Len(s)] = "/" THEN RStripSlash(SubSeq(s, 1, Len(s) - 1)) ELSE s

\* URLShortener.__init__: self.base_url = (base_url or config.base_url).rstrip('/')
BaseUrl == RStripSlash(<<"http://test.com", "/">>)

\* models.ShortenRequest
ShortenRequest(url, custom_code, expires_hours) ==
    [url |-> url, custom_code |-> custom_code, expires_hours |-> expires_hours]

\* models.ShortenResponse.success_response
SuccessResponse(short_url, original_url, short_code, expires_at) ==
    [short_url |-> short_url, original_url |-> original_url, short_code |-> short_code,
     success |-> TRUE, error |-> None, expires_at |-> expires_at]

\* models.ShortenResponse.error_response
ErrorResponse(error, original_url) ==
    [short_url |-> <<>>, original_url |-> original_url, short_code |-> <<>>,
     success |-> FALSE, error |-> Some(error), expires_at |-> None]

ErrInvalidUrl == <<"Invalid URL provided">>
ErrExists(short_code) == <<"Short code '", short_code, "' already exists">>
ErrStore == <<"Failed to store shortened URL: ", "SQL Insert failed">>

\* a generator that returns one character too many
GenerateCodeLong(length) ==
    [1 .. (IF length = 0 THEN DefaultCodeLength ELSE length) + 1 -> Alphabet]

\* a generator that ignores the length it is given
GenerateCodeIgnoreLength(length) ==
    [1 .. DefaultCodeLength -> Alphabet]

\* URLShortener._generate_code: the codes a call with this length can return
\* (length 0 stands for "no length given": length or default_code_length)
GenerateCode(length) ==
    [1 .. (IF length = 0 THEN DefaultCodeLength ELSE length) -> Alphabet]

\* Python truthiness of Optional[int]
Truthy(o) == ~IsNone(o) /\ Val(o) # 0

-----------------------------------------------------------------------------
(* Backend dispatch (AbstractStorage) *)

\* the outcomes of one backend call: only a remote call can fail
Faults(b) == IF b = "xata" /\ faulty THEN BOOLEAN ELSE {FALSE}

FreeIds(w, refs) == Ids \ (DOMAIN w.objs \cup refs)
FreshId(w, refs) == IF FreeIds(w, refs) = {} THEN 0 ELSE FirstId(FreeIds(w, refs))

\* what a handle returned by get denotes now: the heap object (memory) or the copy (xata)
Deref(b, w, h) == IF b = "memory" THEN w.objs[h] ELSE h

StorageGet(b, w, code, fault) ==
    IF b = "memory" THEN MemoryGet(w, code) ELSE XataGet(w, code, fault)

\* an existence check that sees only the entries still active
StorageExistsLiveOnly(b, w, code, fault) ==
    /\ IF b = "memory" THEN MemoryExists(w, code) ELSE XataExists(w, code, fault)
    /\ \E i \in IdsWithCode(w, code) : w.objs[i].is_active

StorageExists(b, w, code, fault) ==
    IF b = "memory" THEN MemoryExists(w, code) ELSE XataExists(w, code, fault)

StorageDelete(b, w, code, fault) ==
    IF b = "memory" THEN MemoryDelete(w, code) ELSE XataDelete(w, code, fault)

StorageUpdateClickCount(b, w, code, fault) ==
    IF b = "memory" THEN MemoryUpdateClickCount(w, code)
    ELSE XataUpdateClickCount(w, code, fault)

StorageGetStats(b, w, fault) ==
    IF b = "memory" THEN MemoryGetStats(w) ELSE XataGetStats(w, fault)

StorageGetAllUrls(b, w, fault) ==
    IF b = "memory" THEN MemoryGetAllUrls(w) ELSE XataGetAllUrls(w, fault)

-----------------------------------------------------------------------------
(* URLShortener.shorten, in two steps: up to storage.exists, then storage.set *)

\* a shorten that draws another code when the generated one is taken
ShortenBeginRedraw(b, w, t, req, generated, fault) ==
    IF ~IsValidUrl(req.url)
    THEN [done |-> TRUE, ret |-> ErrorResponse(ErrInvalidUrl, req.url)]
    ELSE LET expires_at == IF Truthy(req.expires_hours)
                           THEN Some(t + Val(req.expires_hours))
                           ELSE None
             modified_url == ModifyDownlodrUrl(req.url, expires_at)
             free == {c \in GenerateCode(0) : ~StorageExists(b, w, c, fault)}
             short_code == IF req.custom_code # <<>> THEN req.custom_code
                           ELSE IF StorageExists(b, w, generated, fault) /\ free # {}
                           THEN CHOOSE c \in free : TRUE
                           ELSE generated
         IN IF StorageExists(b, w, short_code, fault)
            THEN [done |-> TRUE, ret |-> ErrorResponse(ErrExists(short_code), req.url)]
            ELSE [done |-> FALSE,
                  loc |-> [req |-> req, expires_at |-> expires_at,
                           modified_url |-> modified_url, short_code |-> short_code]]

\* a shorten that refuses a negative duration
ShortenBeginRejectNegative(b, w, t, req, generated, fault) ==
    IF ~IsValidUrl(req.url) \/ (~IsNone(req.expires_hours) /\ Val(req.expires_hours) < 0)
    THEN [done |-> TRUE, ret |-> ErrorResponse(ErrInvalidUrl, req.url)]
    ELSE LET expires_at == IF Truthy(req.expires_hours)
                           THEN Some(t + Val(req.expires_hours))
                           ELSE None
             modified_url == ModifyDownlodrUrl(req.url, expires_at)
             short_code == IF req.custom_code # <<>> THEN req.custom_code ELSE generated
         IN IF StorageExists(b, w, short_code, fault)
            THEN [done |-> TRUE, ret |-> ErrorResponse(ErrExists(short_code), req.url)]
            ELSE [done |-> FALSE,
                  loc |-> [req |-> req, expires_at |-> expires_at,
                           modified_url |-> modified_url, short_code |-> short_code]]

\* shortener.py 103-120
ShortenBegin(b, w, t, req, generated, fault) ==
    IF ~IsValidUrl(req.url)
    THEN [done |-> TRUE, ret |-> ErrorResponse(ErrInvalidUrl, req.url)]
    ELSE LET expires_at == IF Truthy(req.expires_hours)
                           THEN Some(t + Val(req.expires_hours))   \* timedelta(milliseconds=...)
                           ELSE None
             modified_url == ModifyDownlodrUrl(req.url, expires_at)
             short_code == IF req.custom_code # <<>> THEN req.custom_code ELSE generated
         IN IF StorageExists(b, w, short_code, fault)
            THEN [done |-> TRUE, ret |-> ErrorResponse(ErrExists(short_code), req.url)]
            ELSE [done |-> FALSE,
                  loc |-> [req |-> req, expires_at |-> expires_at,
                           modified_url |-> modified_url, short_code |-> short_code]]

\* a store step that joins base_url and code without the "/"
ShortenStoreNoSlash(b, w, t, loc, id, fault) ==
    LET short_url_obj == ShortURL(loc.modified_url, loc.short_code, t, loc.expires_at, 0, TRUE)
        ok == SuccessResponse(BaseUrl \o loc.short_code, loc.modified_url,
                              loc.short_code, loc.expires_at)
    IN IF b = "memory"
       THEN [raised |-> FALSE, ret |-> ok,
             w |-> MemorySet([w EXCEPT !.objs = (id :> short_url_obj) @@ @], id)]
       ELSE LET s == XataSet(w, short_url_obj, fault, id, t) IN
            [raised |-> s.raised, ret |-> ok, w |-> s.w]

\* shortener.py 122-140; id is the identity of the new object / row
ShortenStore(b, w, t, loc, id, fault) ==
    LET short_url_obj == ShortURL(loc.modified_url, loc.short_code, t, loc.expires_at, 0, TRUE)
        ok == SuccessResponse(BaseUrl \o <<"/">> \o loc.short_code, loc.modified_url,
                              loc.short_code, loc.expires_at)
    IN IF b = "memory"
       THEN [raised |-> FALSE, ret |-> ok,
             w |-> MemorySet([w EXCEPT !.objs = (id :> short_url_obj) @@ @], id)]
       ELSE LET s == XataSet(w, short_url_obj, fault, id, t) IN
            [raised |-> s.raised, ret |-> ok, w |-> s.w]

\* a shorten without its except clause: the exception leaves the call
ShortenNoCatch(out, req) == out

\* shortener.py 142-145: except Exception
ShortenCatch(out, req) ==
    IF out.raised
    THEN [raised |-> FALSE, ret |-> ErrorResponse(ErrStore, req.url), w |-> out.w]
    ELSE out

-----------------------------------------------------------------------------
(* URLShortener.expand, in two steps: storage.get and the checks, then      *)
(* storage.update_click_count                                               *)

\* an expiry test that already fires at the instant expires_at
IsExpiredAtOrAfter(obj, t) == ~IsNone(obj.expires_at) /\ t >= Val(obj.expires_at)

\* shortener.py 161: expires_at and datetime.now(UTC) > expires_at
IsExpired(obj, t) == ~IsNone(obj.expires_at) /\ t > Val(obj.expires_at)

\* an expand that forgets the is_active check
ExpandBeginNoActiveCheck(b, w, t, short_code, fault) ==
    LET short_url == StorageGet(b, w, short_code, fault) IN
    IF IsNone(short_url) THEN [done |-> TRUE, ret |-> None]
    ELSE IF IsExpired(Deref(b, w, Val(short_url)), t) THEN [done |-> TRUE, ret |-> None]
    ELSE [done |-> FALSE, loc |-> [short_code |-> short_code, short_url |-> Val(short_url)]]

\* shortener.py 155-168
ExpandBegin(b, w, t, short_code, fault) ==
    LET short_url == StorageGet(b, w, short_code, fault) IN
    IF IsNone(short_url) THEN [done |-> TRUE, ret |-> None]
    ELSE IF IsExpired(Deref(b, w, Val(short_url)), t) THEN [done |-> TRUE, ret |-> None]
    ELSE IF ~Deref(b, w, Val(short_url)).is_active THEN [done |-> TRUE, ret |-> None]
    ELSE [done |-> FALSE, loc |-> [short_code |-> short_code, short_url |-> Val(short_url)]]

\* an expand that answers the destination without counting the click
ExpandCountNoClick(b, w, loc, fault) ==
    [ret |-> Some(Deref(b, w, loc.short_url).original_url), w |-> w]

\* shortener.py 170-175
ExpandCount(b, w, loc, fault) ==
    LET u == StorageUpdateClickCount(b, w, loc.short_code, fault) IN
    [ret |-> Some(Deref(b, u.w, loc.short_url).original_url), w |-> u.w]

-----------------------------------------------------------------------------
(* URLShortener.get_info *)

\* a get_info that hides an expired entry the way expand does
GetInfoHideExpired(b, w, t, short_code, fault) ==
    LET url_obj == StorageGet(b, w, short_code, fault) IN
    IF IsNone(url_obj) THEN [ret |-> None, w |-> w]
    ELSE IF IsExpired(Deref(b, w, Val(url_obj)), t) THEN [ret |-> None, w |-> w]
    ELSE LET o == Deref(b, w, Val(url_obj)) IN
         [w |-> w, ret |->
          Some([short_code |-> short_code,
               original_url |-> o.original_url,
               created_at |-> IsoFormat(o.created_at),
               expires_at |-> IF IsNone(o.expires_at) THEN None
                              ELSE Some(IsoFormat(Val(o.expires_at))),
               click_count |-> o.click_count,
               is_active |-> o.is_active,
               is_expired |-> FALSE])]

\* shortener.py 187-204
GetInfo(b, w, t, short_code, fault) ==
    LET url_obj == StorageGet(b, w, short_code, fault) IN
    IF IsNone(url_obj) THEN [ret |-> None, w |-> w]
    ELSE LET o == Deref(b, w, Val(url_obj)) IN
         [w |-> w, ret |->
          Some([short_code |-> short_code,
               original_url |-> o.original_url,
               created_at |-> IsoFormat(o.created_at),
               expires_at |-> IF IsNone(o.expires_at) THEN None
                              ELSE Some(IsoFormat(Val(o.expires_at))),
               click_count |-> o.click_count,
               is_active |-> o.is_active,
               is_expired |-> IF ~IsNone(o.expires_at) THEN t > Val(o.expires_at) ELSE FALSE])]

-----------------------------------------------------------------------------
(* URLShortener.deactivate, in two steps: storage.get and the flip, then    *)
(* storage.set                                                              *)

\* a deactivate that fetches the entry and forgets to flip is_active
DeactivateBeginNoFlip(b, w, short_code, fault) ==
    LET url_obj == StorageGet(b, w, short_code, fault) IN
    IF IsNone(url_obj) THEN [done |-> TRUE, ret |-> FALSE, w |-> w]
    ELSE [done |-> FALSE, loc |-> [url_obj |-> Val(url_obj)], w |-> w]

\* a deactivate that also clears the expiry of the entry it switches off
DeactivateBeginClearExpiry(b, w, short_code, fault) ==
    LET url_obj == StorageGet(b, w, short_code, fault) IN
    IF IsNone(url_obj) THEN [done |-> TRUE, ret |-> FALSE, w |-> w]
    ELSE IF b = "memory"
         THEN [done |-> FALSE, loc |-> [url_obj |-> Val(url_obj)],
               w |-> [w EXCEPT !.objs[Val(url_obj)].is_active = FALSE,
                               !.objs[Val(url_obj)].expires_at = None]]
         ELSE [done |-> FALSE,
               loc |-> [url_obj |-> [Val(url_obj) EXCEPT !.is_active = FALSE,
                                                         !.expires_at = None]],
               w |-> w]

\* a deactivate that also resets the click count of the entry it switches off
DeactivateBeginResetClicks(b, w, short_code, fault) ==
    LET url_obj == StorageGet(b, w, short_code, fault) IN
    IF IsNone(url_obj) THEN [done |-> TRUE, ret |-> FALSE, w |-> w]
    ELSE IF b = "memory"
         THEN [done |-> FALSE, loc |-> [url_obj |-> Val(url_obj)],
               w |-> [w EXCEPT !.objs[Val(url_obj)].is_active = FALSE,
                               !.objs[Val(url_obj)].click_count = 0]]
         ELSE [done |-> FALSE,
               loc |-> [url_obj |-> [Val(url_obj) EXCEPT !.is_active = FALSE,
                                                         !.click_count = 0]],
               w |-> w]

\* shortener.py 242-246
DeactivateBegin(b, w, short_code, fault) ==
    LET url_obj == StorageGet(b, w, short_code, fault) IN
    IF IsNone(url_obj) THEN [done |-> TRUE, ret |-> FALSE, w |-> w]
    ELSE IF b = "memory"
         THEN [done |-> FALSE, loc |-> [url_obj |-> Val(url_obj)],
               w |-> [w EXCEPT !.objs[Val(url_obj)].is_active = FALSE]]
         ELSE [done |-> FALSE, loc |-> [url_obj |-> [Val(url_obj) EXCEPT !.is_active = FALSE]],
               w |-> w]

\* shortener.py 247-253, with the except clause
DeactivateStore(b, w, t, loc, id, fault) ==
    IF b = "memory"
    THEN [ret |-> TRUE, w |-> MemorySet(w, loc.url_obj)]
    ELSE LET s == XataSet(w, loc.url_obj, fault, id, t) IN
         [ret |-> ~s.raised, w |-> s.w]

-----------------------------------------------------------------------------
(* URLShortener.delete *)

\* shortener.py 224-233
Delete(b, w, short_code, fault) == StorageDelete(b, w, short_code, fault)

-----------------------------------------------------------------------------
(* URLShortener.stats, get_stats, get_all_urls *)

\* shortener.py 212-216: try / except around storage.get_stats
Stats(b, w, fault) ==
    LET s == StorageGetStats(b, w, fault) IN
    IF s.raised THEN [raised |-> FALSE, ret |-> ZeroStats] ELSE s

\* shortener.py 276: storage.get_stats with no try around it
GetStats(b, w, fault) == StorageGetStats(b, w, fault)

\* shortener.py 285-289: the lists the call can return
GetAllUrls(b, w, fault) == StorageGetAllUrls(b, w, fault)

-----------------------------------------------------------------------------
(* Whole engine calls: the steps of one call run back to back *)

\* URLShortener.shorten
ShortenCall(b, w, t, req, generated, id, f1, f2) ==
    LET s1 == ShortenBegin(b, w, t, req, generated, f1) IN
    IF s1.done THEN [raised |-> FALSE, ret |-> s1.ret, w |-> w]
    ELSE ShortenCatch(ShortenStore(b, w, t, s1.loc, id, f2), req)

\* an expand that counts the click before it looks at the entry
ExpandCallCountFirst(b, w, t, short_code, f1, f2) ==
    LET u == StorageUpdateClickCount(b, w, short_code, f2)
        s1 == ExpandBegin(b, u.w, t, short_code, f1)
    IN IF s1.done THEN [ret |-> s1.ret, w |-> u.w]
       ELSE [ret |-> Some(Deref(b, u.w, s1.loc.short_url).original_url), w |-> u.w]

\* URLShortener.expand
ExpandCall(b, w, t, short_code, f1, f2) ==
    LET s1 == ExpandBegin(b, w, t, short_code, f1) IN
    IF s1.done THEN [ret |-> s1.ret, w |-> w]
    ELSE ExpandCount(b, w, s1.loc, f2)

\* URLShortener.deactivate
DeactivateCall(b, w, t, short_code, id, f1, f2) ==
    LET s1 == DeactivateBegin(b, w, short_code, f1) IN
    IF s1.done THEN [ret |-> s1.ret, w |-> s1.w]
    ELSE DeactivateStore(b, s1.w, t, s1.loc, id, f2)

-----------------------------------------------------------------------------
(* Web layer (api/main.py) *)

\* pydantic HttpUrl of ShortenUrlRequest: an http or https URL with a host
IsHttpUrl(url) == url.scheme \in {"http", "https"} /\ url.netloc # ""

\* POST /shorten
ApiShorten(b, w, t, req, generated, id, f1, f2) ==
    IF ~IsHttpUrl(req.url) THEN [status |-> 422, detail |-> <<"validation error">>, w |-> w]
    ELSE LET r == ShortenCall(b, w, t, req, generated, id, f1, f2) IN
         IF r.raised
         THEN [status |-> 500, detail |-> <<"Internal server error: ">>, w |-> r.w]
         ELSE IF ~r.ret.success
         THEN [status |-> 400,
               detail |-> IF IsNone(r.ret.error) THEN <<"Failed to shorten URL">>
                          ELSE Val(r.ret.error),
               w |-> r.w]
         ELSE [status |-> 200,
               body |-> [short_url |-> r.ret.short_url,
                         original_url |-> r.ret.original_url,
                         short_code |-> r.ret.short_code,
                         expires_at |-> IF IsNone(r.ret.expires_at) THEN None
                                        ELSE Some(IsoFormat(Val(r.ret.expires_at)))],
               w |-> r.w]

\* a redirect without the check of the destination
RedirectAnswerNoGuard(original_url) ==
    IF IsNone(original_url) THEN [status |-> 404, location |-> None]
    ELSE [status |-> 301, location |-> original_url]

\* main.py 126-141: the answer for what expand returned
RedirectAnswer(original_url) ==
    IF IsNone(original_url) THEN [status |-> 404, location |-> None]
    ELSE IF Val(original_url).scheme = "" \/ Val(original_url).netloc = ""
    THEN [status |-> 400, location |-> None]
    ELSE [status |-> 301, location |-> original_url]

\* GET /{short_code}
ApiRedirect(b, w, t, short_code, f1, f2) ==
    LET e == ExpandCall(b, w, t, short_code, f1, f2) IN
    [resp |-> RedirectAnswer(e.ret), w |-> e.w]

\* HEAD /{short_code}
ApiHeadRedirect(b, w, t, short_code, f1, f2) ==
    LET e == ExpandCall(b, w, t, short_code, f1, f2) IN
    [resp |-> RedirectAnswer(e.ret), w |-> e.w]

-----------------------------------------------------------------------------
(* Inputs *)

Urls == {UrlPlain, UrlNoScheme, UrlShareGood}
CustomCodes == {<<"a">>}
Hours == {-1, 0, 1}
Durations == {None} \cup {Some(h) : h \in Hours}
Requests ==
    {ShortenRequest(u, c, h) : u \in Urls, c \in CustomCodes \cup {None}, h \in Durations}
\* the codes callers ask about
Codes == GenerateCode(0) \cup CustomCodes
\* request.custom_code or self._generate_code(): the generator runs only
\* when no custom code is given
GeneratedFor(req) == IF req.custom_code # <<>> THEN {None} ELSE GenerateCode(0)
\* the fault patterns of a call that makes two backend calls
FaultPairs(b) == Faults(b) \X Faults(b)

-----------------------------------------------------------------------------
(* State machine: one caller, every engine call runs to completion *)

Init ==
    /\ backend \in Backends
    /\ faulty = FALSE
    /\ now = 0
    /\ objs = [i \in {} |-> None]
    /\ stored = {}
    /\ pc = [p \in Procs |-> "idle"]
    /\ local = [p \in Procs |-> None]

\* the world after a step: objects neither stored nor referenced are dropped
Commit(w, refs) ==
    /\ objs' = [i \in (w.stored \cup refs) |-> w.objs[i]]
    /\ stored' = w.stored

ClicksBounded(w) == \A i \in w.stored : w.objs[i].click_count <= MaxClicks

\* a caller runs shorten(request) to completion
Shorten ==
    \E req \in Requests, f \in FaultPairs(backend) : \E generated \in GeneratedFor(req) :
        LET r == ShortenCall(backend, World, now, req, generated,
                             FreshId(World, {}), f[1], f[2]) IN
        /\ IF r.w = World THEN TRUE ELSE FreeIds(World, {}) # {}
        /\ Commit(r.w, {})
        /\ UNCHANGED <<backend, faulty, now, pc, local>>

\* a caller runs expand(short_code) to completion
Expand ==
    \E short_code \in Codes, f \in FaultPairs(backend) :
        LET r == ExpandCall(backend, World, now, short_code, f[1], f[2]) IN
        /\ ClicksBounded(r.w)
        /\ Commit(r.w, {})
        /\ UNCHANGED <<backend, faulty, now, pc, local>>

\* a caller runs get_info(short_code)
Info ==
    \E short_code \in Codes, f \in Faults(backend) :
        LET r == GetInfo(backend, World, now, short_code, f) IN
        /\ Commit(r.w, {})
        /\ UNCHANGED <<backend, faulty, now, pc, local>>

\* a caller runs deactivate(short_code) to completion
Deactivate ==
    \E short_code \in Codes, f \in FaultPairs(backend) :
        LET r == DeactivateCall(backend, World, now, short_code,
                                FreshId(World, {}), f[1], f[2]) IN
        /\ Commit(r.w, {})
        /\ UNCHANGED <<backend, faulty, now, pc, local>>

\* a caller runs delete(short_code)
DeleteEntry ==
    \E short_code \in Codes, f \in Faults(backend) :
        LET r == Delete(backend, World, short_code, f) IN
        /\ Commit(r.w, {})
        /\ UNCHANGED <<backend, faulty, now, pc, local>>

\* a caller runs stats() or get_stats()
ReadStats ==
    \E f \in Faults(backend) :
      \E r \in {Stats(backend, World, f), GetStats(backend, World, f)} :
        /\ Commit(World, {})
        /\ UNCHANGED <<backend, faulty, now, pc, local>>

\* a caller runs get_all_urls()
ListAll ==
    \E f \in Faults(backend) : \E urls \in GetAllUrls(backend, World, f) :
        /\ Commit(World, {})
        /\ UNCHANGED <<backend, faulty, now, pc, local>>

\* a clock whose tick also sweeps the entries that have expired
TickSweep ==
    /\ now < MaxTime
    /\ now' = now + 1
    /\ Commit([World EXCEPT !.stored = {i \in @ : ~IsExpired(objs[i], now + 1)}], {})
    /\ UNCHANGED <<backend, faulty, pc, local>>

\* a clock that can also step back
TickBack ==
    /\ now' \in {now + 1, now - 1} \cap (0 .. MaxTime)
    /\ UNCHANGED <<backend, faulty, objs, stored, pc, local>>

\* the clock advances
Tick ==
    /\ now < MaxTime
    /\ now' = now + 1
    /\ UNCHANGED <<backend, faulty, objs, stored, pc, local>>

Next ==
    Shorten \/ Expand \/ Info \/ Deactivate \/ DeleteEntry \/ ReadStats \/ ListAll \/ Tick

Spec == Init /\ [][Next]_vars

\* the same machine with a remote backend whose calls may fail
InitFault ==
    /\ backend \in Backends
    /\ faulty = TRUE
    /\ now = 0
    /\ objs = [i \in {} |-> None]
    /\ stored = {}
    /\ pc = [p \in Procs |-> "idle"]
    /\ local = [p \in Procs |-> None]

SpecFault == InitFault /\ [][Next]_vars

-----------------------------------------------------------------------------
(* State machine: several callers (threads on one MemoryStorage, workers on *)
(* one table), each engine call one step per backend call                   *)

ConcRequests == {ShortenRequest(UrlPlain, c, None) : c \in CustomCodes \cup {None}}

\* the heap objects the callers other than p hold a reference to
RefsOfOthers(p) ==
    IF backend # "memory" THEN {}
    ELSE {Val(local[q]).short_url : q \in {x \in Procs \ {p} : pc[x] = "expand_count"}}
         \cup {Val(local[q]).url_obj : q \in {x \in Procs \ {p} : pc[x] = "deactivate_store"}}
\* the reference a handle is, if it is one
RefOf(h) == IF backend = "memory" THEN {h} ELSE {}

\* caller p returns ret from operation op
Return(p, op, ret) ==
    /\ pc' = [pc EXCEPT ![p] = "idle"]
    /\ local' = [local EXCEPT ![p] = Some([op |-> op, ret |-> ret])]
\* caller p goes on to the step at with its locals
Goto(p, at, loc) ==
    /\ pc' = [pc EXCEPT ![p] = at]
    /\ local' = [local EXCEPT ![p] = Some(loc)]

\* shorten, up to the existence check
ShortenCheck(p) ==
    /\ pc[p] = "idle"
    /\ \E req \in ConcRequests : \E generated \in GeneratedFor(req) :
        LET s == ShortenBegin(backend, World, now, req, generated, FALSE) IN
        IF s.done THEN Return(p, "shorten", s.ret) ELSE Goto(p, "shorten_store", s.loc)
    /\ UNCHANGED <<backend, faulty, now, objs, stored>>

\* shorten, the insert and the response
ShortenInsert(p) ==
    /\ pc[p] = "shorten_store"
    /\ FreeIds(World, RefsOfOthers(p)) # {}
    /\ LET loc == Val(local[p])
           r == ShortenCatch(ShortenStore(backend, World, now, loc,
                                          FreshId(World, RefsOfOthers(p)), FALSE), loc.req)
       IN /\ Commit(r.w, RefsOfOthers(p))
          /\ Return(p, "shorten", r.ret)
    /\ UNCHANGED <<backend, faulty, now>>

\* expand, the fetch and the checks
ExpandFetch(p) ==
    /\ pc[p] = "idle"
    /\ \E short_code \in Codes :
        LET s == ExpandBegin(backend, World, now, short_code, FALSE) IN
        IF s.done THEN Return(p, "expand", s.ret) ELSE Goto(p, "expand_count", s.loc)
    /\ UNCHANGED <<backend, faulty, now, objs, stored>>

\* expand, the click and the answer
ExpandClick(p) ==
    /\ pc[p] = "expand_count"
    /\ LET r == ExpandCount(backend, World, Val(local[p]), FALSE) IN
       /\ ClicksBounded(r.w)
       /\ Commit(r.w, RefsOfOthers(p))
       /\ Return(p, "expand", r.ret)
    /\ UNCHANGED <<backend, faulty, now>>

\* get_info
InfoRead(p) ==
    /\ pc[p] = "idle"
    /\ \E short_code \in Codes :
        LET r == GetInfo(backend, World, now, short_code, FALSE) IN
        /\ Commit(r.w, RefsOfOthers(p))
        /\ Return(p, "info", r.ret)
    /\ UNCHANGED <<backend, faulty, now>>

\* deactivate, the fetch and the flip
DeactivateFetch(p) ==
    /\ pc[p] = "idle"
    /\ \E short_code \in Codes :
        LET s == DeactivateBegin(backend, World, short_code, FALSE) IN
        IF s.done
        THEN /\ Commit(s.w, RefsOfOthers(p))
             /\ Return(p, "deactivate", s.ret)
        ELSE /\ Commit(s.w, RefsOfOthers(p) \cup RefOf(s.loc.url_obj))
             /\ Goto(p, "deactivate_store", s.loc)
    /\ UNCHANGED <<backend, faulty, now>>

\* deactivate, the write back
DeactivateWrite(p) ==
    /\ pc[p] = "deactivate_store"
    /\ LET r == DeactivateStore(backend, World, now, Val(local[p]),
                                FreshId(World, RefsOfOthers(p)), FALSE)
       IN /\ IF r.w = World THEN TRUE ELSE FreeIds(World, RefsOfOthers(p)) # {}
          /\ Commit(r.w, RefsOfOthers(p))
          /\ Return(p, "deactivate", r.ret)
    /\ UNCHANGED <<backend, faulty, now>>

\* delete
DeleteRow(p) ==
    /\ pc[p] = "idle"
    /\ \E short_code \in Codes :
        LET r == Delete(backend, World, short_code, FALSE) IN
        /\ Commit(r.w, RefsOfOthers(p))
        /\ Return(p, "delete", r.ret)
    /\ UNCHANGED <<backend, faulty, now>>

NextConc ==
    \E p \in Procs :
        \/ ShortenCheck(p) \/ ShortenInsert(p)
        \/ ExpandFetch(p) \/ ExpandClick(p)
        \/ InfoRead(p)
        \/ DeactivateFetch(p) \/ DeactivateWrite(p)
        \/ DeleteRow(p)

SpecConc == Init /\ [][NextConc]_vars

-----------------------------------------------------------------------------
(* Vocabulary of the properties *)

IsStored(w, code) == IdsWithCode(w, code) # {}
Entry(w, code) == w.objs[FirstId(IdsWithCode(w, code))]
NoFault == <<FALSE, FALSE>>
\* an identity for the object a call creates: a free one, or one beyond the bound
NewId == FreshId(World, {})
ValidRequests == {req \in Requests : IsValidUrl(req.url)}
\* a code no caller of the model ever creates
AbsentCode == <<"z">>
\* the entries with code short_code changed by f, every other object as it was
OnlyChanged(w, short_code, f(_)) ==
    [objs |-> [i \in DOMAIN objs |->
                 IF i \in stored /\ objs[i].short_code = short_code THEN f(objs[i]) ELSE objs[i]],
     stored |-> stored] = w
Clicked(o) == [o EXCEPT !.click_count = @ + 1]
Deactivated(o) == [o EXCEPT !.is_active = FALSE]

-----------------------------------------------------------------------------
(* C1 *)

-----------------------------------------------------------------------------
(* C2 *)

-----------------------------------------------------------------------------
(* C3 *)

\* C3: for every custom code that is not stored, shorten of a valid URL
\* succeeds, returns that code as short_code and base_url + "/" + code as
\* short_url, and stores the entry under the code.
C3_FreeCustomCodeSucceeds ==
    \A req \in ValidRequests, f \in FaultPairs(backend) :
        (req.custom_code # None /\ ~IsStored(World, req.custom_code)) =>
          LET r == ShortenCall(backend, World, now, req, None, NewId, f[1], f[2]) IN
          /\ ~r.raised
          /\ r.ret.success
          /\ r.ret.short_code = req.custom_code
          /\ r.ret.short_url = <<"http://test.com", "/">> \o req.custom_code
          /\ IsStored(r.w, req.custom_code)

\* another code is stored while the custom code is free, and shorten returns
\* the custom code under the base URL
C3_Witness ==
    \E c \in CustomCodes, req \in ValidRequests :
        /\ stored # {}
        /\ ~IsStored(World, c)
        /\ req.custom_code = c
        /\ LET r == ShortenCall(backend, World, now, req, None, NewId, FALSE, FALSE) IN
           /\ r.ret.success
           /\ r.ret.short_url = <<"http://test.com", "/">> \o c
           /\ Cardinality(r.w.stored) = Cardinality(stored) + 1

-----------------------------------------------------------------------------
(* C4 *)

\* C4: expand returns None, the same value, for a code that is absent, for a
\* stored entry that is expired and for a stored entry that is deactivated.
C4_ExpandNotFoundUniform ==
    \A short_code \in Codes \cup {AbsentCode}, f \in FaultPairs(backend) :
        LET r == ExpandCall(backend, World, now, short_code, f[1], f[2]) IN
        (\/ ~IsStored(World, short_code)
         \/ IsExpired(Entry(World, short_code), now)
         \/ ~Entry(World, short_code).is_active) => r.ret = None

\* one stored entry is expired and still active, another is deactivated and
\* not expired, and expand answers None for both
C4_Witness ==
    \E c1 \in Codes, c2 \in Codes :
        /\ IsStored(World, c1) /\ IsStored(World, c2)
        /\ IsExpired(Entry(World, c1), now) /\ Entry(World, c1).is_active
        /\ ~IsExpired(Entry(World, c2), now) /\ ~Entry(World, c2).is_active
        /\ ExpandCall(backend, World, now, c1, FALSE, FALSE).ret = None
        /\ ExpandCall(backend, World, now, c2, FALSE, FALSE).ret = None
        /\ ExpandCall(backend, World, now, AbsentCode, FALSE, FALSE).ret = None

-----------------------------------------------------------------------------
(* C5 *)

\* C5: an expand that returns a destination raises the click_count of that
\* entry by exactly 1 and changes nothing else; get_info changes nothing.
C5_ClickPerExpand ==
    \A short_code \in Codes, f \in FaultPairs(backend) :
        LET r == ExpandCall(backend, World, now, short_code, f[1], f[2])
            g == GetInfo(backend, World, now, short_code, f[1])
        IN /\ ~IsNone(r.ret) => /\ IsStored(World, short_code)
                                /\ OnlyChanged(r.w, short_code, Clicked)
           /\ g.w = World

\* an entry was expanded twice and is still live: a third expand counts 3,
\* and get_info reports the 2
C5_Witness ==
    \E c \in Codes :
        /\ IsStored(World, c)
        /\ Entry(World, c).click_count = 2
        /\ LET r == ExpandCall(backend, World, now, c, FALSE, FALSE) IN
           /\ ~IsNone(r.ret)
           /\ Entry(r.w, c).click_count = 3
        /\ Val(GetInfo(backend, World, now, c, FALSE).ret).click_count = 2

-----------------------------------------------------------------------------
(* C6 *)

\* C6 as stated: shorten with a duration of h > 0 hours stores and returns
\* expires_at = creation time + h hours; with duration 0 or none it stores and
\* returns expires_at = None.
C6_ExpiresAfterHours ==
    \A req \in ValidRequests, f \in FaultPairs(backend) :
      \A generated \in GeneratedFor(req) :
        LET r == ShortenCall(backend, World, now, req, generated, NewId, f[1], f[2])
            h == req.expires_hours
        IN r.ret.success =>
             LET o == Entry(r.w, r.ret.short_code) IN
             /\ (~IsNone(h) /\ Val(h) > 0) =>
                    /\ r.ret.expires_at = Some(o.created_at + Val(h) * MsPerHour)
                    /\ o.expires_at = r.ret.expires_at
             /\ (IsNone(h) \/ Val(h) = 0) =>
                    /\ r.ret.expires_at = None
                    /\ o.expires_at = None

-----------------------------------------------------------------------------
(* C7 *)

\* the storage after the step
WorldNext == [objs |-> objs', stored |-> stored']
\* caller p completes a shorten that answers success with short_code
ShortenCreates(p, short_code) ==
    /\ pc[p] = "shorten_store"
    /\ pc'[p] = "idle"
    /\ Val(local'[p]).ret.success
    /\ Val(local'[p]).ret.short_code = short_code

\* C7 as stated: in every interleaving of the callers' delete, deactivate,
\* expand, info and shorten calls, a code that is absent from the storage
\* (deleted, or never created) becomes stored again only by the insert of a
\* shorten; no step of deactivate, expand or info stores it.
C7_NoResurrection ==
    [][\A short_code \in Codes :
         (~IsStored(World, short_code) /\ IsStored(WorldNext, short_code))
            => \E p \in Procs : ShortenCreates(p, short_code)]_vars

-----------------------------------------------------------------------------
(* C8 *)

\* C8: with the memory backend, deactivate of a stored code returns True, the
\* entry stays stored with is_active = False and every other field and entry
\* as before, expand of the code then returns None and get_info still returns
\* the entry; deactivate of an absent code returns False and changes nothing.
C8_MemoryDeactivate ==
    backend = "memory" =>
      \A short_code \in Codes \cup {AbsentCode} :
        LET r == DeactivateCall(backend, World, now, short_code, NewId, FALSE, FALSE) IN
        IF IsStored(World, short_code)
        THEN /\ r.ret = TRUE
             /\ OnlyChanged(r.w, short_code, Deactivated)
             /\ ExpandCall(backend, r.w, now, short_code, FALSE, FALSE).ret = None
             /\ LET g == GetInfo(backend, r.w, now, short_code, FALSE).ret IN
                /\ ~IsNone(g)
                /\ ~Val(g).is_active
                /\ Val(g).original_url = Entry(World, short_code).original_url
                /\ Val(g).click_count = Entry(World, short_code).click_count
        ELSE /\ r.ret = FALSE
             /\ r.w = World

\* the memory backend holds a clicked, unexpired entry that deactivate has
\* switched off: expand no longer resolves it, get_info still shows it
C8_Witness ==
    /\ backend = "memory"
    /\ \E c \in Codes :
        /\ IsStored(World, c)
        /\ ~Entry(World, c).is_active
        /\ Entry(World, c).click_count > 0
        /\ ~IsExpired(Entry(World, c), now)
        /\ ExpandCall(backend, World, now, c, FALSE, FALSE).ret = None
        /\ ~IsNone(GetInfo(backend, World, now, c, FALSE).ret)

-----------------------------------------------------------------------------
(* C9 *)

\* C9 as stated: with the remote backend, deactivate of a stored code returns
\* True and afterwards the single row of that code has is_active = False.
C9_RemoteDeactivate ==
    backend = "xata" =>
      \A short_code \in Codes :
        IsStored(World, short_code) =>
          LET r == DeactivateCall(backend, World, now, short_code, NewId, FALSE, FALSE) IN
          /\ r.ret = TRUE
          /\ Cardinality(IdsWithCode(r.w, short_code)) = 1
          /\ ~Entry(r.w, short_code).is_active

-----------------------------------------------------------------------------
(* C10 *)

-----------------------------------------------------------------------------
(* C11 *)

\* what urlparse can make of a string: each of scheme and authority present or not
ParsedUrls ==
    {MkUrl(scheme, netloc, share) : scheme \in {"", "https", "mailto"},
                                    netloc \in {"", "example.com"},
                                    share \in {None, Some(TokenGood)}}
NoSchemeOrNoAuthority == {url \in ParsedUrls : url.scheme = "" \/ url.netloc = ""}
EmptyWorld == [objs |-> [i \in {} |-> None], stored |-> {}]

-----------------------------------------------------------------------------
(* C12 *)

\* the result of the call caller p completed last, if it was an op
Returned(p, op) ==
    /\ pc[p] = "idle"
    /\ local[p] # None
    /\ Val(local[p]).op = op

\* C12: in every state of every interleaving of the callers' shorten,
\* deactivate, delete, expand and info steps, the backend holds at most one
\* entry for each short_code.
C12_OneEntryPerCode ==
    \A i \in stored, j \in stored : objs[i].short_code = objs[j].short_code => i = j

\* two callers on the remote backend passed the existence check for the same
\* code; one insert was accepted, the other was refused, and one row is held
C12_Witness ==
    /\ backend = "xata"
    /\ \E p \in Procs, q \in Procs :
        /\ Returned(p, "shorten") /\ Returned(q, "shorten")
        /\ Val(local[p]).ret.success
        /\ Val(local[q]).ret.error = Some(ErrStore)
        /\ Cardinality(IdsWithCode(World, Val(local[p]).ret.short_code)) = 1

-----------------------------------------------------------------------------
(* C13 *)

\* C13: with the memory backend, every insert of a shorten that passed the
\* existence check answers success, and right after it the store holds exactly
\* one entry for the code: the object this call created, also when another
\* caller's insert for the same code ran in between.  So of two calls that
\* both passed the check, both succeed and the entry of the later insert stays.
C13_LastInsertWins ==
    [][\A p \in Procs :
         (backend = "memory" /\ pc[p] = "shorten_store" /\ pc'[p] = "idle") =>
            LET short_code == Val(local[p]).short_code IN
            /\ Val(local'[p]).ret.success
            /\ Val(local'[p]).ret.short_code = short_code
            /\ Cardinality(IdsWithCode(WorldNext, short_code)) = 1
            /\ IdsWithCode(WorldNext, short_code) \cap DOMAIN objs = {}]_vars

\* with the memory backend, caller q passed the existence check for a custom
\* code before caller p's insert stored it; p was answered success, and q's
\* insert now answers success as well and replaces p's entry
C13_Witness ==
    /\ backend = "memory"
    /\ \E p \in Procs, q \in Procs, c \in CustomCodes :
        /\ Returned(p, "shorten")
        /\ Val(local[p]).ret.success
        /\ Val(local[p]).ret.short_code = c
        /\ pc[q] = "shorten_store"
        /\ Val(local[q]).short_code = c
        /\ IsStored(World, c)
        /\ FreeIds(World, {}) # {}
        /\ LET r == ShortenStore(backend, World, now, Val(local[q]), NewId, FALSE) IN
           /\ r.ret.success
           /\ IdsWithCode(r.w, c) = {NewId}
           /\ IdsWithCode(World, c) # {NewId}

-----------------------------------------------------------------------------
(* C14 *)

\* C14: with the remote backend, whenever a caller's expand performs its click
\* on a stored entry, in any interleaving, that one step raises the stored
\* click_count by exactly 1 and the count the update returns is the new stored
\* count.  So N expands raise the count by N and return N different counts.
C14_AtomicIncrement ==
    [][\A p \in Procs :
         (backend = "xata" /\ pc[p] = "expand_count" /\ pc'[p] = "idle"
            /\ IsStored(World, Val(local[p]).short_code)) =>
            LET short_code == Val(local[p]).short_code
                u == StorageUpdateClickCount(backend, World, short_code, FALSE)
            IN /\ IsStored(WorldNext, short_code)
               /\ Entry(WorldNext, short_code).click_count
                    = Entry(World, short_code).click_count + 1
               /\ u.ret = Some(Entry(WorldNext, short_code).click_count)
               /\ u.w = WorldNext]_vars

\* with the remote backend, two callers have both fetched the same live entry
\* and neither has clicked yet: their two updates return 1 then 2 and leave 2
C14_Witness ==
    /\ backend = "xata"
    /\ \E c \in Codes :
        /\ \A p \in Procs : pc[p] = "expand_count" /\ Val(local[p]).short_code = c
        /\ IsStored(World, c)
        /\ Entry(World, c).click_count = 0
        /\ LET u1 == XataUpdateClickCount(World, c, FALSE)
               u2 == XataUpdateClickCount(u1.w, c, FALSE)
           IN /\ u1.ret = Some(1)
              /\ u2.ret = Some(2)
              /\ Entry(u2.w, c).click_count = 2

-----------------------------------------------------------------------------
(* C15 *)

\* caller p performs the click of an expand of short_code
ExpandClicks(p, short_code) ==
    /\ pc[p] = "expand_count"
    /\ pc'[p] = "idle"
    /\ Val(local[p]).short_code = short_code

\* C15: in every interleaving of the callers' steps, every stored entry (an
\* object of the memory backend, a row of the remote one) has a click_count
\* that is a non-negative integer; across a step that keeps the entry stored
\* the count never decreases, and when it changes the step is the click of an
\* expand of that entry's code and the count goes up by 1.
C15_ClickCountMonotonic ==
    [][/\ \A i \in stored' : objs'[i].click_count \in Nat
       /\ \A i \in stored \cap stored' :
            /\ objs'[i].click_count >= objs[i].click_count
            /\ objs'[i].click_count # objs[i].click_count =>
                 /\ objs'[i].click_count = objs[i].click_count + 1
                 /\ \E p \in Procs : ExpandClicks(p, objs[i].short_code)]_vars

\* with the memory backend, an entry was clicked up to the bound by expands and
\* then switched off by a deactivate that returned True: the count is kept
C15_Witness ==
    /\ backend = "memory"
    /\ \E c \in Codes, p \in Procs, q \in Procs :
        /\ IsStored(World, c)
        /\ Entry(World, c).click_count = MaxClicks
        /\ ~Entry(World, c).is_active
        /\ Returned(p, "deactivate") /\ Val(local[p]).ret = TRUE
        /\ Returned(q, "expand") /\ Val(local[q]).ret = Some(Entry(World, c).original_url)

-----------------------------------------------------------------------------
(* C16 *)

\* C16: with the backend answering, delete(code) returns True exactly when the
\* code is stored, and then the entry of that code is gone and every other
\* entry is as before; on an absent code it returns False and changes nothing;
\* a second delete of the code returns False and changes nothing; after the
\* delete, expand and get_info of the code return None.
C16_DeleteIdempotent ==
    \A short_code \in Codes \cup {AbsentCode} :
        LET r == Delete(backend, World, short_code, FALSE)
            again == Delete(backend, r.w, short_code, FALSE)
        IN /\ r.ret = IsStored(World, short_code)
           /\ r.w = [World EXCEPT !.stored = @ \ IdsWithCode(World, short_code)]
           /\ ~IsStored(World, short_code) => r.w = World
           /\ ~IsStored(r.w, short_code)
           /\ again.ret = FALSE
           /\ again.w = r.w
           /\ ExpandCall(backend, r.w, now, short_code, FALSE, FALSE).ret = None
           /\ GetInfo(backend, r.w, now, short_code, FALSE).ret = None

\* two entries are stored and one of them is live and clicked: expand resolves
\* it, delete of it returns True and leaves only the other entry, and expand
\* and get_info of it then return None
C16_Witness ==
    \E c \in Codes, d \in Codes :
        /\ c # d
        /\ IsStored(World, c) /\ IsStored(World, d)
        /\ Entry(World, c).click_count > 0
        /\ ~IsNone(ExpandCall(backend, World, now, c, FALSE, FALSE).ret)
        /\ LET r == Delete(backend, World, c, FALSE) IN
           /\ r.ret = TRUE
           /\ r.w.stored = IdsWithCode(World, d)
           /\ ExpandCall(backend, r.w, now, c, FALSE, FALSE).ret = None
           /\ GetInfo(backend, r.w, now, c, FALSE).ret = None
           /\ Delete(backend, r.w, c, FALSE).ret = FALSE

-----------------------------------------------------------------------------
(* C17 *)

\* C17: with the backend answering, get_info of an absent code returns None;
\* get_info of a stored code returns the stored destination and click count
\* together with is_expired = True when expires_at lies before the current
\* time, and is_expired = False when expires_at is None or lies after it.
C17_InfoReportsExpiry ==
    \A short_code \in Codes \cup {AbsentCode} :
        LET g == GetInfo(backend, World, now, short_code, FALSE).ret IN
        IF ~IsStored(World, short_code) THEN g = None
        ELSE LET o == Entry(World, short_code) IN
             /\ ~IsNone(g)
             /\ Val(g).original_url = o.original_url
             /\ Val(g).click_count = o.click_count
             /\ (~IsNone(o.expires_at) /\ Val(o.expires_at) < now) => Val(g).is_expired = TRUE
             /\ (IsNone(o.expires_at) \/ Val(o.expires_at) > now) => Val(g).is_expired = FALSE

\* one stored entry was clicked and has since expired, another has no expiry:
\* get_info shows the first as expired with its click, the second as not
\* expired, and expand no longer resolves the first
C17_Witness ==
    \E c \in Codes, d \in Codes :
        /\ IsStored(World, c) /\ IsStored(World, d)
        /\ ~IsNone(Entry(World, c).expires_at) /\ Val(Entry(World, c).expires_at) < now
        /\ Entry(World, c).click_count > 0
        /\ IsNone(Entry(World, d).expires_at)
        /\ Val(GetInfo(backend, World, now, c, FALSE).ret).is_expired = TRUE
        /\ Val(GetInfo(backend, World, now, c, FALSE).ret).click_count
             = Entry(World, c).click_count
        /\ Val(GetInfo(backend, World, now, d, FALSE).ret).is_expired = FALSE
        /\ ExpandCall(backend, World, now, c, FALSE, FALSE).ret = None

-----------------------------------------------------------------------------
(* C18 *)

\* the requests with a valid URL that does not carry the share marker
PlainRequests == {req \in ValidRequests : IsNone(req.url.share)}
\* the times from now to the end of the clock
Later(t) == t .. MaxTime

\* C18: with the backend answering, after a successful shorten of a URL
\* without the share marker, a first expand at any later time and a second one
\* after it each return either None or exactly the input URL, and each expand
\* that returns the URL raises the click count of the entry by one: 1 after the
\* first, 2 after the second.
C18_RoundTrip ==
    \A req \in PlainRequests : \A generated \in GeneratedFor(req) :
        LET r == ShortenCall(backend, World, now, req, generated, NewId, FALSE, FALSE) IN
        r.ret.success =>
          \A t1 \in Later(now) : \A t2 \in Later(t1) :
            LET code == r.ret.short_code
                e1 == ExpandCall(backend, r.w, t1, code, FALSE, FALSE)
                e2 == ExpandCall(backend, e1.w, t2, code, FALSE, FALSE)
            IN /\ r.ret.original_url = req.url
               /\ Entry(r.w, code).click_count = 0
               /\ e1.ret \in {None, Some(req.url)}
               /\ e2.ret \in {None, Some(req.url)}
               /\ Entry(e1.w, code).click_count = IF e1.ret = None THEN 0 ELSE 1
               /\ Entry(e2.w, code).click_count
                    = Entry(e1.w, code).click_count + (IF e2.ret = None THEN 0 ELSE 1)
               /\ Entry(e2.w, code).original_url = req.url

\* a code is free while another entry is stored: shorten of the plain URL with
\* a duration succeeds, two expands right away both return the URL and count
\* two clicks, and an expand after the expiry returns None
C18_Witness ==
    /\ stored # {}
    /\ now < MaxTime - 1
    /\ \E req \in PlainRequests : \E generated \in GeneratedFor(req) :
        LET r == ShortenCall(backend, World, now, req, generated, NewId, FALSE, FALSE)
            e1 == ExpandCall(backend, r.w, now, r.ret.short_code, FALSE, FALSE)
            e2 == ExpandCall(backend, e1.w, now, r.ret.short_code, FALSE, FALSE)
        IN /\ FreeIds(World, {}) # {}
           /\ r.ret.success
           /\ ~IsNone(r.ret.expires_at)
           /\ e1.ret = Some(req.url)
           /\ e2.ret = Some(req.url)
           /\ Entry(e2.w, r.ret.short_code).click_count = 2
           /\ ExpandCall(backend, e2.w, MaxTime, r.ret.short_code, FALSE, FALSE).ret = None

-----------------------------------------------------------------------------
(* C19 *)

\* C19 as stated: when a call of the backend's get, exists, delete or
\* update_click_count on a stored code fails, what the caller receives differs
\* from what the same call returns for a code that is not stored.
C19_FaultDistinguishable ==
    \A short_code \in Codes : \A fault \in Faults(backend) :
        (fault /\ IsStored(World, short_code)) =>
            /\ StorageGet(backend, World, short_code, fault)
                 # StorageGet(backend, World, AbsentCode, FALSE)
            /\ StorageExists(backend, World, short_code, fault)
                 # StorageExists(backend, World, AbsentCode, FALSE)
            /\ StorageDelete(backend, World, short_code, fault).ret
                 # StorageDelete(backend, World, AbsentCode, FALSE).ret
            /\ StorageUpdateClickCount(backend, World, short_code, fault).ret
                 # StorageUpdateClickCount(backend, World, AbsentCode, FALSE).ret

-----------------------------------------------------------------------------
(* C20 *)

\* the code a shorten call works with
CodeOf(req, generated) == IF req.custom_code # None THEN req.custom_code ELSE generated

\* C20: with a backend whose calls may fail (a failed call has no effect on
\* the table), shorten always returns a result: when the insert fails the
\* result is the failure 'Failed to store shortened URL'; whenever the result
\* reports failure the storage is exactly as before the call, and whenever it
\* reports success the storage is as before plus one new entry, held under
\* the returned code with the returned destination and expiry.
C20_ShortenAllOrNothing ==
    \A req \in Requests, f \in FaultPairs(backend) :
      \A generated \in GeneratedFor(req) :
        LET r == ShortenCall(backend, World, now, req, generated, NewId, f[1], f[2])
            begin == ShortenBegin(backend, World, now, req, generated, f[1])
        IN /\ ~r.raised
           /\ (~begin.done /\ f[2]) => r.ret = ErrorResponse(ErrStore, req.url)
           /\ IF r.ret.success
              THEN /\ r.ret.short_code = CodeOf(req, generated)
                   /\ ~IsStored(World, r.ret.short_code)
                   /\ IdsWithCode(r.w, r.ret.short_code) = {NewId}
                   /\ r.w.stored = stored \cup {NewId}
                   /\ \A i \in stored : r.w.objs[i] = objs[i]
                   /\ r.w.objs[NewId].original_url = r.ret.original_url
                   /\ r.w.objs[NewId].expires_at = r.ret.expires_at
                   /\ r.w.objs[NewId].is_active
              ELSE r.w = World

\* the failing remote backend holds the custom code and has a free one: a
\* shorten whose existence check fails on the held code runs into the refused
\* insert and changes nothing, a shorten of the free code whose insert fails
\* stores nothing, and the same shorten without a failure stores the entry
C20_Witness ==
    /\ backend = "xata" /\ faulty
    /\ FreeIds(World, {}) # {}
    /\ \E c \in CustomCodes, generated \in GenerateCode(0) :
        LET dup == ShortenRequest(UrlPlain, c, None)
            new == ShortenRequest(UrlPlain, None, Some(1))
        IN /\ IsStored(World, c)
           /\ ~IsStored(World, generated)
           /\ ShortenCall(backend, World, now, dup, None, NewId, TRUE, FALSE).ret
                = ErrorResponse(ErrStore, UrlPlain)
           /\ ShortenCall(backend, World, now, dup, None, NewId, TRUE, FALSE).w = World
           /\ ShortenCall(backend, World, now, new, generated, NewId, FALSE, TRUE).w = World
           /\ ~ShortenCall(backend, World, now, new, generated, NewId, FALSE, TRUE).ret.success
           /\ ShortenCall(backend, World, now, new, generated, NewId, FALSE, FALSE).ret.success
           /\ IsStored(ShortenCall(backend, World, now, new, generated,
                                   NewId, FALSE, FALSE).w, generated)

-----------------------------------------------------------------------------
(* C21 *)

\* C21: with a backend whose calls may fail, no engine operation raises:
\* shorten, stats and get_stats return a result and not an exception, and an
\* operation whose backend call failed returns its failure value: shorten the
\* failure 'Failed to store shortened URL', expand and get_info None, delete
\* and deactivate False, stats and get_stats the zeroed statistics,
\* get_all_urls the empty list.
C21_NoExceptionPropagates ==
    /\ \A req \in Requests, f \in FaultPairs(backend) : \A generated \in GeneratedFor(req) :
        LET r == ShortenCall(backend, World, now, req, generated, NewId, f[1], f[2]) IN
        /\ ~r.raised
        /\ (f[2] /\ ~ShortenBegin(backend, World, now, req, generated, f[1]).done)
              => r.ret = ErrorResponse(ErrStore, req.url)
    /\ \A f \in Faults(backend) :
        /\ ~Stats(backend, World, f).raised
        /\ ~GetStats(backend, World, f).raised
        /\ f => /\ Stats(backend, World, f).ret = ZeroStats
                /\ GetStats(backend, World, f).ret = ZeroStats
                /\ GetAllUrls(backend, World, f) = {<<>>}
    /\ \A short_code \in Codes, f \in FaultPairs(backend) :
        /\ f[1] => /\ ExpandCall(backend, World, now, short_code, f[1], f[2]).ret = None
                   /\ GetInfo(backend, World, now, short_code, f[1]).ret = None
                   /\ Delete(backend, World, short_code, f[1]).ret = FALSE
        /\ (f[1] \/ f[2]) =>
              DeactivateCall(backend, World, now, short_code, NewId, f[1], f[2]).ret = FALSE

\* the failing remote backend holds a clicked entry: with its query failing,
\* get_stats answers the zeroed statistics and get_all_urls the empty list,
\* while without a failure they report the entry
C21_Witness ==
    /\ backend = "xata" /\ faulty
    /\ \E i \in stored : objs[i].click_count > 0
    /\ GetStats(backend, World, TRUE) = [raised |-> FALSE, ret |-> ZeroStats]
    /\ GetStats(backend, World, FALSE).ret.total_clicks > 0
    /\ GetAllUrls(backend, World, TRUE) = {<<>>}
    /\ <<>> \notin GetAllUrls(backend, World, FALSE)

-----------------------------------------------------------------------------
(* C22 *)

\* the tokens a shareId can be
Tokens == {TokenGood, TokenNoUrl, TokenList, TokenBadJson, TokenBadB64}
\* valid URLs that contain the share marker, on the service's host and on another
MarkedUrls ==
    {MkUrl(scheme, netloc, Some(token)) :
        scheme \in {"https", "http"}, netloc \in {"downlodr.com", "example.com"},
        token \in Tokens}
\* shorten of url for a code that may be taken, with the backend answering
ShortenOf(url, c, h, generated) ==
    ShortenCall(backend, World, now, ShortenRequest(url, c, h), generated, NewId, FALSE, FALSE)
\* the expiry shorten computes for a duration
ExpiryFor(h) == IF Truthy(h) THEN Some(now + Val(h)) ELSE None

\* C22: with the backend answering, whenever shorten succeeds for a URL
\* without the share marker, or for a URL with the marker and a duration that
\* gives no expiry (none, or 0), the destination it returns and the destination
\* of the stored entry are the input URL, unchanged.
C22_PassThrough ==
    \A url \in {UrlPlain} \cup MarkedUrls, c \in CustomCodes \cup {None}, h \in Durations :
      \A generated \in GeneratedFor(ShortenRequest(url, c, h)) :
        LET r == ShortenOf(url, c, h, generated) IN
        (r.ret.success /\ (IsNone(url.share) \/ IsNone(ExpiryFor(h)))) =>
            /\ r.ret.original_url = url
            /\ Entry(r.w, r.ret.short_code).original_url = url
            /\ IsNone(ExpiryFor(h)) => /\ r.ret.expires_at = None
                                       /\ Entry(r.w, r.ret.short_code).expires_at = None

\* a rewritten share URL is stored and the custom code is free: shorten of the
\* same share URL with duration 0 stores it unchanged, as does shorten of the
\* plain URL with a duration
C22_Witness ==
    /\ \E i \in stored : objs[i].original_url \notin Urls
    /\ FreeIds(World, {}) # {}
    /\ \E c \in CustomCodes :
        /\ ShortenOf(UrlShareGood, c, Some(0), None).ret.success
        /\ Entry(ShortenOf(UrlShareGood, c, Some(0), None).w, c).original_url = UrlShareGood
        /\ ShortenOf(UrlShareGood, c, Some(1), None).ret.original_url # UrlShareGood
        /\ Entry(ShortenOf(UrlPlain, c, Some(1), None).w, c).original_url = UrlPlain

-----------------------------------------------------------------------------
(* C23 *)

MalformedTokens == {TokenNoUrl, TokenList, TokenBadJson, TokenBadB64}
MalformedUrls == {url \in MarkedUrls : Val(url.share) \in MalformedTokens}

\* C23: for a URL with the share marker whose token is bad base64, is not
\* JSON, is JSON but not an object, or is an object without a url field, the
\* rewriter returns the URL unchanged for every expiry, and shorten, with the
\* backend answering, fails only on a taken code and otherwise succeeds with
\* the input URL as the destination returned and stored.
C23_MalformedTokenAbsorbed ==
    \A url \in MalformedUrls, c \in CustomCodes \cup {None}, h \in Durations :
      \A generated \in GeneratedFor(ShortenRequest(url, c, h)) :
        LET r == ShortenOf(url, c, h, generated)
            code == IF c # None THEN c ELSE generated
        IN /\ ModifyDownlodrUrl(url, ExpiryFor(h)) = url
           /\ ~r.raised
           /\ IF IsStored(World, code)
              THEN r.ret.error = Some(ErrExists(code))
              ELSE /\ r.ret.success
                   /\ r.ret.original_url = url
                   /\ Entry(r.w, code).original_url = url
                   /\ Entry(r.w, code).expires_at = ExpiryFor(h)

\* an entry is stored and a custom code is free: shorten with a duration
\* stores the share URL whose token has no url field, and the one whose token
\* is not base64, as given, while it rewrites the one with a decodable token
C23_Witness ==
    /\ stored # {}
    /\ FreeIds(World, {}) # {}
    /\ \E c \in CustomCodes :
        LET nourl == MkUrl("https", "downlodr.com", Some(TokenNoUrl)) IN
        /\ ~IsStored(World, c)
        /\ ShortenOf(nourl, c, Some(1), None).ret.success
        /\ Entry(ShortenOf(nourl, c, Some(1), None).w, c).original_url = nourl
        /\ Entry(ShortenOf(UrlShareBadB64, c, Some(1), None).w, c).original_url = UrlShareBadB64
        /\ Entry(ShortenOf(UrlShareGood, c, Some(1), None).w, c).original_url # UrlShareGood

-----------------------------------------------------------------------------
(* C24 *)

GoodUrls == {url \in MarkedUrls : Val(url.share) = TokenGood}
\* the object a rewritten URL carries
PayloadOf(url) == Val(Val(url.share).json).value

\* C24: with the backend answering, shorten of a URL with the share marker
\* whose token decodes to an object with a url field, with a duration that
\* gives an expiry and a free code, succeeds; the destination returned and
\* stored is the fixed prefix https://downlodr.com/share-video/?shareId=
\* followed by the encoding of an object with exactly the fields url, the
\* token's url, and expiresAt, the isoformat of the expires_at stored for the
\* entry and returned.
C24_RewrittenPayload ==
    \A url \in GoodUrls, c \in CustomCodes \cup {None}, h \in Durations :
      \A generated \in GeneratedFor(ShortenRequest(url, c, h)) :
        LET r == ShortenOf(url, c, h, generated)
            code == IF c # None THEN c ELSE generated
        IN (Truthy(h) /\ ~IsStored(World, code)) =>
              LET o == Entry(r.w, code) IN
              /\ r.ret.success
              /\ o.original_url = r.ret.original_url
              /\ o.expires_at = r.ret.expires_at
              /\ ~IsNone(o.expires_at)
              /\ o.original_url.scheme = "https"
              /\ o.original_url.netloc = "downlodr.com"
              /\ Val(o.original_url.share).b64
              /\ Val(Val(o.original_url.share).json).kind = "object"
              /\ DOMAIN PayloadOf(o.original_url) = {"url", "expiresAt"}
              /\ PayloadOf(o.original_url).url = PayloadOf(url).url
              /\ PayloadOf(o.original_url).expiresAt = IsoFormat(Val(o.expires_at))

\* the clock has advanced and a rewritten share URL is stored whose expiresAt
\* is the isoformat of the entry's expires_at, and get_info and expand show it
C24_Witness ==
    /\ now > 0
    /\ \E i \in stored :
        /\ objs[i].original_url \notin Urls
        /\ ~IsNone(objs[i].expires_at)
        /\ Val(objs[i].expires_at) > objs[i].created_at
        /\ objs[i].created_at > 0
        /\ PayloadOf(objs[i].original_url).expiresAt = IsoFormat(Val(objs[i].expires_at))
        /\ PayloadOf(objs[i].original_url).url = PayloadFull.url
        /\ ExpandCall(backend, World, now, objs[i].short_code, FALSE, FALSE).ret
             = Some(objs[i].original_url)

-----------------------------------------------------------------------------
(* C25 *)

\* the clock readings a read can see, one past the end included
Times == 0 .. MaxTime + 1

\* C25: with the backend answering, at every time t a read of a stored entry
\* gives the verdict "expired" exactly when expires_at is set and t is
\* strictly greater than it: get_info reports is_expired accordingly, and
\* expand of an active entry returns None exactly then; an entry without
\* expires_at is not expired at any t; the entry holds no expired flag, the
\* verdict follows t on the same stored entry.
C25_ExpiredIffPast ==
    \A i \in stored : \A t \in Times :
        LET o == objs[i]
            expired == ~IsNone(o.expires_at) /\ t > Val(o.expires_at)
            g == GetInfo(backend, World, t, o.short_code, FALSE).ret
            e == ExpandCall(backend, World, t, o.short_code, FALSE, FALSE).ret
        IN /\ "is_expired" \notin DOMAIN o
           /\ Val(g).is_expired = expired
           /\ o.is_active => ((e = None) <=> expired)
           /\ IsNone(o.expires_at) => ~Val(g).is_expired

\* the clock stands exactly at the expires_at of an active entry: get_info and
\* expand do not treat it as expired now, and both do one instant later
C25_Witness ==
    \E i \in stored :
        /\ objs[i].is_active
        /\ objs[i].expires_at = Some(now)
        /\ now > objs[i].created_at
        /\ ~Val(GetInfo(backend, World, now, objs[i].short_code, FALSE).ret).is_expired
        /\ ExpandCall(backend, World, now, objs[i].short_code, FALSE, FALSE).ret
             = Some(objs[i].original_url)
        /\ Val(GetInfo(backend, World, now + 1, objs[i].short_code, FALSE).ret).is_expired
        /\ ExpandCall(backend, World, now + 1, objs[i].short_code, FALSE, FALSE).ret = None

-----------------------------------------------------------------------------
(* C26 *)

\* the codes the backend holds
StoredCodes(w) == {w.objs[i].short_code : i \in w.stored}

\* C26: with the backend answering, after every step each stored entry that
\* has expired is still there for exists, get_info and the total_urls of
\* stats; and a step after which a stored code is no longer stored has done
\* exactly what delete of that code does.  Neither the passing of time nor a
\* read removes an entry.
C26_ExpiryNeverRemoves ==
    [][/\ \A i \in stored' :
            IsExpired(objs'[i], now') =>
              /\ StorageExists(backend, WorldNext, objs'[i].short_code, FALSE)
              /\ ~IsNone(GetInfo(backend, WorldNext, now', objs'[i].short_code, FALSE).ret)
              /\ Stats(backend, WorldNext, FALSE).ret.total_urls = Cardinality(stored')
       /\ \A short_code \in StoredCodes(World) \ StoredCodes(WorldNext) :
            /\ Delete(backend, World, short_code, FALSE).ret
            /\ stored' = Delete(backend, World, short_code, FALSE).w.stored
       /\ now' # now => StoredCodes(WorldNext) = StoredCodes(World)]_vars

\* at the end of the clock an entry whose expiry passed two instants ago is
\* still stored next to a live one: exists and get_info find it, stats counts
\* both, expand returns None for it
C26_Witness ==
    /\ now = MaxTime
    /\ \E i \in stored, j \in stored :
        /\ ~IsNone(objs[i].expires_at)
        /\ Val(objs[i].expires_at) + 2 <= now
        /\ ~IsExpired(objs[j], now)
        /\ StorageExists(backend, World, objs[i].short_code, FALSE)
        /\ Val(GetInfo(backend, World, now, objs[i].short_code, FALSE).ret).is_expired
        /\ Stats(backend, World, FALSE).ret.total_urls = 2
        /\ ExpandCall(backend, World, now, objs[i].short_code, FALSE, FALSE).ret = None

-----------------------------------------------------------------------------
(* C27 *)

\* one element per click of each stored entry
ClickMarks == {<<i, k>> \in stored \X (1 .. MaxClicks + 1) : k <= objs[i].click_count}

\* C27: with the backend answering, stats and get_stats both return
\* total_urls = the number of stored entries, active_urls = the number of
\* stored entries with is_active true, total_clicks = the sum of the
\* click_count of the stored entries; so 0, 0, 0 when nothing is stored, and
\* active_urls <= total_urls.
C27_StatsCount ==
    \A st \in {Stats(backend, World, FALSE), GetStats(backend, World, FALSE)} :
        /\ ~st.raised
        /\ st.ret.total_urls = Cardinality(stored)
        /\ st.ret.active_urls = Cardinality({i \in stored : objs[i].is_active})
        /\ st.ret.total_clicks = Cardinality(ClickMarks)
        /\ stored = {} => st.ret = ZeroStats
        /\ st.ret.active_urls <= st.ret.total_urls

\* two entries are stored, one clicked twice and still active, one clicked
\* once and deactivated: stats answers 2 entries, 1 active, 3 clicks
C27_Witness ==
    /\ \E i \in stored, j \in stored :
        /\ objs[i].click_count = 2 /\ objs[i].is_active
        /\ objs[j].click_count = 1 /\ ~objs[j].is_active
    /\ Stats(backend, World, FALSE).ret
         = [total_urls |-> 2, active_urls |-> 1, total_clicks |-> 3]

-----------------------------------------------------------------------------
(* C28 *)

\* C28: with the backend answering, every list get_all_urls can return has
\* exactly one summary for each stored entry, with that entry's fields, and
\* no other summary; and the summary of an entry created later never comes
\* after the summary of an entry created earlier.
C28_ListNewestFirst ==
    \A urls \in GetAllUrls(backend, World, FALSE) :
        /\ Len(urls) = Cardinality(stored)
        /\ \A i \in stored :
             \E k \in 1 .. Len(urls) :
                /\ urls[k] = UrlSummary(objs[i])
                /\ \A j \in 1 .. Len(urls) : urls[j].short_code = objs[i].short_code => j = k
        /\ \A j, k \in 1 .. Len(urls) :
             j < k => FromIsoFormat(urls[j].created_at) >= FromIsoFormat(urls[k].created_at)

\* two entries created at different times are stored, the older one clicked:
\* the one list get_all_urls can return shows the newer entry first
C28_Witness ==
    \E i \in stored, j \in stored :
        /\ objs[i].created_at < objs[j].created_at
        /\ objs[i].click_count > 0
        /\ GetAllUrls(backend, World, FALSE) = {<<UrlSummary(objs[j]), UrlSummary(objs[i])>>}

-----------------------------------------------------------------------------
(* C29 *)

\* C29: for a request the web layer accepts, POST /shorten answers 400 with
\* the engine's error exactly when shorten reports failure (a taken code, a
\* failed insert) and 200 with the engine's result otherwise; GET and HEAD
\* /{short_code} answer 404 without a location when expand returns None, and
\* 301 only with the destination expand returned and only when it has both a
\* scheme and an authority; for a destination without one of them the answer
\* is 400 without a location.
C29_WebStatusMapping ==
    /\ \A req \in Requests, f \in FaultPairs(backend) : \A generated \in GeneratedFor(req) :
        LET r == ShortenCall(backend, World, now, req, generated, NewId, f[1], f[2])
            a == ApiShorten(backend, World, now, req, generated, NewId, f[1], f[2])
        IN IsHttpUrl(req.url) =>
             /\ a.w = r.w
             /\ IF r.ret.success
                THEN /\ a.status = 200
                     /\ a.body.short_code = r.ret.short_code
                     /\ a.body.original_url = r.ret.original_url
                ELSE /\ a.status = 400
                     /\ Some(a.detail) = r.ret.error
    /\ \A short_code \in Codes \cup {AbsentCode}, f \in FaultPairs(backend) :
        LET e == ExpandCall(backend, World, now, short_code, f[1], f[2]) IN
        \A a \in {ApiRedirect(backend, World, now, short_code, f[1], f[2]),
                  ApiHeadRedirect(backend, World, now, short_code, f[1], f[2])} :
            /\ a.w = e.w
            /\ e.ret = None => a.resp = [status |-> 404, location |-> None]
            /\ a.resp.status = 301 => /\ a.resp.location = e.ret
                                      /\ ~IsNone(e.ret)
                                      /\ IsValidUrl(Val(e.ret))
            /\ (~IsNone(e.ret) /\ IsValidUrl(Val(e.ret))) => a.resp.status = 301
    /\ \A url \in ParsedUrls :
        RedirectAnswer(Some(url))
          = IF url.scheme # "" /\ url.netloc # ""
            THEN [status |-> 301, location |-> Some(url)]
            ELSE [status |-> 400, location |-> None]

\* the failing remote backend holds a live entry and an expired one: the
\* web layer redirects to the first, answers 404 for the second, 400 for a
\* shorten of the taken code and for one whose insert fails, and 400 for a
\* destination without an authority
C29_Witness ==
    /\ backend = "xata" /\ faulty
    /\ \E c \in Codes, d \in Codes, generated \in GenerateCode(0) :
        /\ IsStored(World, c) /\ IsStored(World, d)
        /\ IsExpired(Entry(World, d), now)
        /\ ApiRedirect(backend, World, now, c, FALSE, FALSE).resp
             = [status |-> 301, location |-> Some(Entry(World, c).original_url)]
        /\ ApiHeadRedirect(backend, World, now, d, FALSE, FALSE).resp.status = 404
        /\ ApiShorten(backend, World, now, ShortenRequest(UrlPlain, c, None),
                      generated, NewId, FALSE, FALSE).status = 400
        /\ ApiShorten(backend, World, now, ShortenRequest(UrlPlain, AbsentCode, None),
                      generated, NewId, FALSE, TRUE).detail = ErrStore
        /\ RedirectAnswer(Some(UrlNoNetloc)).status = 400

-----------------------------------------------------------------------------
(* C30 *)

\* C30 as stated: in every interleaving of the callers' steps, an expand that
\* returns a destination has found the entry of its code stored at its click
\* and has raised that entry's click_count by exactly 1.
C30_ExpandCountsItsClick ==
    [][\A p \in Procs :
         (pc[p] = "expand_count" /\ pc'[p] = "idle" /\ Val(local'[p]).ret # None) =>
            LET short_code == Val(local[p]).short_code IN
            /\ IsStored(World, short_code)
            /\ IsStored(WorldNext, short_code)
            /\ Entry(WorldNext, short_code).click_count
                 = Entry(World, short_code).click_count + 1]_vars

-----------------------------------------------------------------------------
(* C31 *)

\* C31 as stated: in every interleaving of the callers' steps, no step raises
\* the click_count of a stored entry whose is_active is false.
C31_NoClickWhileInactive ==
    [][\A i \in stored \cap stored' :
         ~objs[i].is_active => objs'[i].click_count <= objs[i].click_count]_vars

-----------------------------------------------------------------------------
(* C32 *)

\* C32: with the backend answering, shorten of a valid URL without a custom
\* code, when the code the generator returned is already stored, returns the
\* conflict failure naming that code, whether or not another code is free, and
\* the storage, the existing entry included, is as before.
C32_GeneratedCollisionConflict ==
    \A req \in ValidRequests : \A generated \in GenerateCode(0) :
        (req.custom_code = None /\ IsStored(World, generated)) =>
            LET r == ShortenCall(backend, World, now, req, generated, NewId, FALSE, FALSE) IN
            /\ r.ret = ErrorResponse(ErrExists(generated), req.url)
            /\ r.w = World
            /\ Entry(r.w, generated) = Entry(World, generated)

\* a generated code is stored and clicked while the other generated code and
\* an identity are free: shorten drawing the stored code answers the conflict,
\* shorten drawing the free one succeeds
C32_Witness ==
    \E taken \in GenerateCode(0), free \in GenerateCode(0) :
        /\ IsStored(World, taken)
        /\ Entry(World, taken).click_count > 0
        /\ ~IsStored(World, free)
        /\ FreeIds(World, {}) # {}
        /\ ShortenOf(UrlPlain, None, None, taken).ret.error = Some(ErrExists(taken))
        /\ ShortenOf(UrlPlain, None, None, free).ret.success

-----------------------------------------------------------------------------
(* C33 *)

\* C33: with the backend answering, across every step an entry that stays
\* stored keeps its short_code, original_url, created_at and expires_at; and
\* in every state reached, an expand of any code leaves each stored entry as
\* it is except for click_count, and a deactivate of any code leaves each
\* stored entry stored and as it is except for is_active.
C33_IdentityFieldsImmutable ==
    /\ [][\A i \in stored \cap stored' :
            /\ objs'[i].short_code = objs[i].short_code
            /\ objs'[i].original_url = objs[i].original_url
            /\ objs'[i].created_at = objs[i].created_at
            /\ objs'[i].expires_at = objs[i].expires_at]_vars
    /\ [](\A short_code \in Codes :
            LET e == ExpandCall(backend, World, now, short_code, FALSE, FALSE)
                d == DeactivateCall(backend, World, now, short_code, NewId, FALSE, FALSE)
            IN /\ e.w.stored = stored
               /\ d.w.stored = stored
               /\ \A i \in stored :
                    /\ e.w.objs[i] = [objs[i] EXCEPT !.click_count = e.w.objs[i].click_count]
                    /\ d.w.objs[i] = [objs[i] EXCEPT !.is_active = d.w.objs[i].is_active])

\* with the memory backend, after the clock has advanced, an entry created
\* after the start with an expiry has been clicked and deactivated, and its
\* creation time and expiry are still those of its creation
C33_Witness ==
    /\ backend = "memory"
    /\ now = MaxTime
    /\ \E i \in stored :
        /\ objs[i].click_count > 0
        /\ ~objs[i].is_active
        /\ objs[i].created_at = 1
        /\ objs[i].expires_at = Some(2)
        /\ Val(GetInfo(backend, World, now, objs[i].short_code, FALSE).ret).created_at
             = IsoFormat(1)

-----------------------------------------------------------------------------
(* C34 *)

\* the step changes what the backend holds
ChangesStorage == objs' # objs \/ stored' # stored

\* C34: with the backend answering, no get_info step, no stats or get_stats
\* step and no get_all_urls step changes what the backend holds, and an
\* expand that returns None, for an absent, an expired or a deactivated code,
\* leaves the storage exactly as it was, every click_count included.
C34_ReadsChangeNothing ==
    /\ ~ENABLED (Info /\ ChangesStorage)
    /\ ~ENABLED (ReadStats /\ ChangesStorage)
    /\ ~ENABLED (ListAll /\ ChangesStorage)
    /\ \A short_code \in Codes \cup {AbsentCode} :
        /\ GetInfo(backend, World, now, short_code, FALSE).w = World
        /\ LET e == ExpandCall(backend, World, now, short_code, FALSE, FALSE) IN
           e.ret = None => e.w = World

\* a clicked entry has expired, another clicked entry is deactivated and one
\* code is absent: expand returns None for all three and changes nothing
C34_Witness ==
    \E c \in Codes, d \in Codes, a \in {AbsentCode} :
        /\ IsStored(World, c) /\ IsStored(World, d) /\ ~IsStored(World, a)
        /\ IsExpired(Entry(World, c), now) /\ Entry(World, c).is_active
        /\ Entry(World, c).click_count > 0
        /\ ~Entry(World, d).is_active /\ ~IsExpired(Entry(World, d), now)
        /\ Entry(World, d).click_count > 0
        /\ \A x \in {c, d, a} :
             ExpandCall(backend, World, now, x, FALSE, FALSE) = [ret |-> None, w |-> World]

-----------------------------------------------------------------------------
(* C35 *)

\* caller p takes the first step of a deactivate that found an entry
DeactivateFlips(p) ==
    /\ pc[p] = "idle"
    /\ pc'[p] = "deactivate_store"

\* C35 as stated: in every interleaving of the callers' steps, a successful
\* shorten creates its entry with is_active = true and click_count = 0; an
\* entry goes from active to inactive only in a step of deactivate; an entry
\* that is inactive and stays stored stays inactive; and a deactivate of a
\* code whose entry is already inactive returns True and changes nothing.
C35_InactiveStaysInactive ==
    /\ [](/\ \A req \in ConcRequests : \A generated \in GeneratedFor(req) :
              LET r == ShortenCall(backend, World, now, req, generated, NewId, FALSE, FALSE) IN
              r.ret.success =>
                  /\ Entry(r.w, CodeOf(req, generated)).is_active
                  /\ Entry(r.w, CodeOf(req, generated)).click_count = 0
          /\ \A short_code \in Codes :
              (IsStored(World, short_code) /\ ~Entry(World, short_code).is_active) =>
                  DeactivateCall(backend, World, now, short_code, NewId, FALSE, FALSE)
                      = [ret |-> TRUE, w |-> World])
    /\ [][\A i \in stored \cap stored' :
            /\ ~objs[i].is_active => ~objs'[i].is_active
            /\ (objs[i].is_active /\ ~objs'[i].is_active) => \E p \in Procs : DeactivateFlips(p)]_vars

-----------------------------------------------------------------------------
(* C36 *)

\* the entry of short_code is stored and is expired or deactivated
Lapsed(short_code) ==
    /\ IsStored(World, short_code)
    /\ IsExpired(Entry(World, short_code), now) \/ ~Entry(World, short_code).is_active

\* C36: with the backend answering, while a code is held by an expired or
\* deactivated entry, shorten with that code (custom or generated) returns the
\* conflict failure and changes nothing; delete of the code returns True, and
\* shorten with the code right after succeeds and stores exactly the entry a
\* first shorten would store: created now, click_count 0, is_active true,
\* the expiry and destination of the new request.
C36_LapsedCodeBlocksUntilDeleted ==
    \A short_code \in Codes : Lapsed(short_code) =>
        LET d == Delete(backend, World, short_code, FALSE) IN
        /\ d.ret = TRUE
        /\ ~IsStored(d.w, short_code)
        /\ \A req \in ValidRequests : \A generated \in GeneratedFor(req) :
            CodeOf(req, generated) = short_code =>
                LET blocked == ShortenCall(backend, World, now, req, generated, NewId, FALSE, FALSE)
                    again == ShortenCall(backend, d.w, now, req, generated,
                                         FreshId(d.w, {}), FALSE, FALSE)
                IN /\ blocked.ret = ErrorResponse(ErrExists(short_code), req.url)
                   /\ blocked.w = World
                   /\ again.ret.success
                   /\ Entry(again.w, short_code)
                        = ShortURL(ModifyDownlodrUrl(req.url, ExpiryFor(req.expires_hours)),
                                   short_code, now, ExpiryFor(req.expires_hours), 0, TRUE)

\* a clicked, deactivated entry holds one code and a clicked, expired entry
\* holds another: shorten is refused for both, and after delete of the first a
\* shorten with its code stores an active entry with no clicks
C36_Witness ==
    \E c \in Codes, d \in Codes :
        /\ IsStored(World, c) /\ IsStored(World, d)
        /\ ~Entry(World, c).is_active /\ Entry(World, c).click_count > 0
        /\ IsExpired(Entry(World, d), now) /\ Entry(World, d).click_count > 0
        /\ d \in CustomCodes
        /\ ShortenOf(UrlPlain, d, None, None).ret.error = Some(ErrExists(d))
        /\ ShortenOf(UrlPlain, None, None, c).ret.error = Some(ErrExists(c))
        /\ LET w == Delete(backend, World, c, FALSE).w
               r == ShortenCall(backend, w, now, ShortenRequest(UrlPlain, None, None), c,
                                FreshId(w, {}), FALSE, FALSE)
           IN c \in GenerateCode(0) /\ r.ret.success
              /\ Entry(r.w, c).click_count = 0 /\ Entry(r.w, c).is_active

-----------------------------------------------------------------------------
(* C37 *)

\* C37: with the backend answering and the clock of the model (it never steps
\* back), across every step: an entry that is expired, for which expand
\* returns None, and that is still stored after the step is still expired
\* after it, and expand of its code still returns None.
C37_ExpiredStaysNotFound ==
    [][\A i \in stored \cap stored' :
         (IsExpired(objs[i], now)
          /\ ExpandCall(backend, World, now, objs[i].short_code, FALSE, FALSE).ret = None)
         => /\ IsExpired(objs'[i], now')
            /\ ExpandCall(backend, WorldNext, now', objs'[i].short_code, FALSE, FALSE).ret = None]_vars

\* an entry created active at time 0 with expiry 1 was clicked before it
\* expired; the clock is now at its end, past the expiry, and expand of the
\* entry returns None
C37_Witness ==
    /\ now = MaxTime
    /\ \E i \in stored :
        /\ objs[i].created_at = 0
        /\ objs[i].expires_at = Some(1)
        /\ objs[i].is_active
        /\ objs[i].click_count > 0
        /\ ExpandCall(backend, World, now, objs[i].short_code, FALSE, FALSE).ret = None
        /\ ExpandCall(backend, World, 1, objs[i].short_code, FALSE, FALSE).ret # None

-----------------------------------------------------------------------------
(* C38 *)

\* C38: with the backend answering, shorten of a valid URL with a negative
\* duration and a code that is free returns success with an expires_at before
\* the creation time; the entry is stored with that expiry; an expand of the
\* code right after returns None and counts nothing, and get_info reports
\* is_expired = true.
C38_NegativeDurationAccepted ==
    \A req \in ValidRequests : \A generated \in GeneratedFor(req) :
        LET short_code == CodeOf(req, generated) IN
        (/\ ~IsNone(req.expires_hours) /\ Val(req.expires_hours) < 0
         /\ ~IsStored(World, short_code)
         /\ FreeIds(World, {}) # {}) =>
            LET r == ShortenCall(backend, World, now, req, generated, NewId, FALSE, FALSE) IN
            /\ r.ret.success
            /\ r.ret.short_code = short_code
            /\ r.ret.expires_at = Some(now + Val(req.expires_hours))
            /\ IsStored(r.w, short_code)
            /\ Entry(r.w, short_code).expires_at = r.ret.expires_at
            /\ Val(r.ret.expires_at) < Entry(r.w, short_code).created_at
            /\ ExpandCall(backend, r.w, now, short_code, FALSE, FALSE) = [ret |-> None, w |-> r.w]
            /\ Val(GetInfo(backend, r.w, now, short_code, FALSE).ret).is_expired

\* an entry whose expiry lies before its creation time is stored, active and
\* never clicked, at the very time it was created, while a code and an
\* identity are free for shorten with a negative duration
C38_Witness ==
    /\ \E i \in stored :
        /\ objs[i].expires_at # None
        /\ Val(objs[i].expires_at) < objs[i].created_at
        /\ objs[i].created_at = now
        /\ objs[i].is_active
        /\ objs[i].click_count = 0
        /\ Val(GetInfo(backend, World, now, objs[i].short_code, FALSE).ret).is_expired
    /\ \E c \in Codes :
        /\ ~IsStored(World, c)
        /\ FreeIds(World, {}) # {}
        /\ ShortenOf(UrlPlain, IF c \in CustomCodes THEN c ELSE None, Some(-1), c).ret.success

-----------------------------------------------------------------------------
(* C39 *)

\* the lengths asked of the generator
CodeLengths == 1 .. MaxCodeLength

\* C39: in every state, the generator called with a length L >= 1 returns a
\* code of exactly L characters, each one of the 62 of [A-Za-z0-9]; called
\* with no length (or 0) it returns what it returns for default_code_length;
\* and what is stored takes nothing away from what it can return: a stored
\* code of the default length can be drawn again.
C39_GeneratorLengthAndAlphabet ==
    /\ Cardinality(Alphanumeric) = 62
    /\ Alphabet \subseteq Alphanumeric
    /\ \A L \in CodeLengths : \A code \in GenerateCode(L) :
        /\ Len(code) = L
        /\ \A k \in 1 .. L : code[k] \in Alphanumeric
    /\ GenerateCode(0) = GenerateCode(DefaultCodeLength)
    /\ \A code \in StoredCodes(World) :
        Len(code) = DefaultCodeLength => code \in GenerateCode(0)

\* a generated code of the default length is stored and clicked, and the
\* generator still offers every code of every length, the stored one included
C39_Witness ==
    /\ \E code \in GenerateCode(0) :
        /\ Len(code) = DefaultCodeLength
        /\ IsStored(World, code)
        /\ Entry(World, code).click_count > 0
    /\ \A L \in CodeLengths : Cardinality(GenerateCode(L)) = Cardinality(Alphabet) ^ L

====
